---- MODULE Spec2Model ----
(***************************************************************************)
(* A model of invoice-pdf: the invoice domain entities and their builders  *)
(* (both revisions of invoice.rs: the one that stores total/due at build   *)
(* time, src/src/invoice.rs, and the one that computes them in accessors,  *)
(* src/invoice-pdf/src/invoice.rs), the Error context chain, and the       *)
(* command line driver with the chromedriver child process.                *)
(***************************************************************************)
EXTENDS Integers, Sequences, FiniteSets, TLC

VARIABLES
    variant,    \* which revision of invoice.rs runs: "stored" or "accessor"
    lb,         \* the LineItemBuilder's fields (Option per field)
    ib,         \* the InvoiceBuilder's fields (Option per field)
    phase,      \* the builder being filled, "built" once build consumed it
    out,        \* what the terminal build returned, with the builder it consumed
    clock,      \* the wall clock Local::now() reads
    added,      \* history: the arguments of the add_line calls, in call order
    replaced,   \* history: the line_items setter was called
    err,        \* an Error value as it travels up the call stack (Option)
    hist,       \* history of err: its first kind and cause, the contexts added
                \* since, and the message a reader expects, outermost context first
    pc,         \* where the command line program's main is
    chrome,     \* the chromedriver child: "none", "running", "exited" or "killed"
    port,       \* who listens on localhost:4444: "free", "chromedriver" or "other"
    polls,      \* start_chromedriver: the polls of the port done so far
    started,    \* what start_chromedriver returned (Option)
    cli,        \* the parsed command line (Option)
    invoices,   \* the invoices get_invoices decoded
    idx,        \* the invoice main's loop is at
    result,     \* what main returned (Option)
    trace,      \* history of the run: the port was seen in use after the spawn,
                \* the input was read, the renders attempted, the outputs written
    ab,         \* the AddressBuilder's fields (Option per field)
    pb,         \* the PartyBuilder's fields (Option per field)
    codec,      \* one run of a serde codec: what went in and what came out (Option)
    gp,         \* one call of generate_pdf: the step it is at, the steps it has run,
                \* the steps that fail when run, and what it returned (Option)
    got         \* what the last accessor called on the built Invoice returned (Option)

bvars == <<variant, lb, ib, phase, out, clock, added, replaced>>

evars == <<err, hist>>

cvars == <<pc, chrome, port, polls, started, cli, invoices, idx, result, trace>>

avars == <<ab, pb, codec, gp, got>>

vars == <<bvars, evars, cvars, avars>>

-----------------------------------------------------------------------------
(* Option<T>: None is the empty sequence, Some(v) the one-element sequence *)

None == <<>>

Some(v) == <<v>>

IsSome(o) == o # <<>>

Unwrap(o) == o[1]

UnwrapOr(o, d) == IF o = <<>> THEN d ELSE o[1]

-----------------------------------------------------------------------------
(* num_bigint::BigInt as bigdecimal uses it: a sign and a magnitude of     *)
(* unbounded length.  The magnitude is a little-endian sequence of decimal *)
(* digits without leading zeros; zero is the empty magnitude.              *)

RECURSIVE MagNorm(_)
MagNorm(m) ==
    IF m = <<>> THEN <<>>
    ELSE IF m[Len(m)] = 0 THEN MagNorm(SubSeq(m, 1, Len(m) - 1))
    ELSE m

RECURSIVE MagFromNat(_)
MagFromNat(n) == IF n = 0 THEN <<>> ELSE <<n % 10>> \o MagFromNat(n \div 10)

RECURSIVE MagAddC(_, _, _)
MagAddC(a, b, c) ==
    IF a = <<>> /\ b = <<>> THEN (IF c = 0 THEN <<>> ELSE <<c>>)
    ELSE LET x == IF a = <<>> THEN 0 ELSE Head(a)
             y == IF b = <<>> THEN 0 ELSE Head(b)
             s == x + y + c
         IN  <<s % 10>> \o MagAddC(IF a = <<>> THEN a ELSE Tail(a),
                                   IF b = <<>> THEN b ELSE Tail(b), s \div 10)

MagAdd(a, b) == MagAddC(a, b, 0)

\* a - b for a >= b
RECURSIVE MagSubB(_, _, _)
MagSubB(a, b, w) ==
    IF a = <<>> THEN <<>>
    ELSE LET y == IF b = <<>> THEN 0 ELSE Head(b)
             d == Head(a) - y - w
         IN  <<d % 10>> \o MagSubB(Tail(a), IF b = <<>> THEN b ELSE Tail(b),
                                   IF d < 0 THEN 1 ELSE 0)

MagSub(a, b) == MagNorm(MagSubB(a, b, 0))

\* -1, 0, 1 as a < b, a = b, a > b
RECURSIVE MagCmp(_, _)
MagCmp(a, b) ==
    IF Len(a) # Len(b) THEN (IF Len(a) < Len(b) THEN -1 ELSE 1)
    ELSE IF a = <<>> THEN 0
    ELSE IF a[Len(a)] # b[Len(b)] THEN (IF a[Len(a)] < b[Len(b)] THEN -1 ELSE 1)
    ELSE MagCmp(SubSeq(a, 1, Len(a) - 1), SubSeq(b, 1, Len(b) - 1))

RECURSIVE MagMulDigit(_, _, _)
MagMulDigit(a, d, c) ==
    IF a = <<>> THEN (IF c = 0 THEN <<>> ELSE <<c>>)
    ELSE LET s == Head(a) * d + c
         IN  <<s % 10>> \o MagMulDigit(Tail(a), d, s \div 10)

RECURSIVE MagMul(_, _)
MagMul(a, b) ==
    IF a = <<>> \/ b = <<>> THEN <<>>
    ELSE MagNorm(MagAdd(MagMulDigit(b, Head(a), 0), <<0>> \o MagMul(Tail(a), b)))

\* the magnitude times 10^k
RECURSIVE MagShift(_, _)
MagShift(m, k) == IF k = 0 \/ m = <<>> THEN m ELSE MagShift(<<0>> \o m, k - 1)

BigInt(neg, mag) == [neg |-> neg /\ mag # <<>>, mag |-> mag]

BigZero == BigInt(FALSE, <<>>)

\* BigInt::from(i32): the magnitude of i32::MIN is not an i32
BigFromI32(n) ==
    IF n >= 0 THEN BigInt(FALSE, MagFromNat(n))
    ELSE BigInt(TRUE, MagAdd(MagFromNat(-(n + 1)), <<1>>))

BigMul(a, b) == BigInt(a.neg # b.neg, MagMul(a.mag, b.mag))

BigNeg(a) == BigInt(~a.neg, a.mag)

BigAdd(a, b) ==
    IF a.neg = b.neg THEN BigInt(a.neg, MagAdd(a.mag, b.mag))
    ELSE IF MagCmp(a.mag, b.mag) >= 0 THEN BigInt(a.neg, MagSub(a.mag, b.mag))
    ELSE BigInt(b.neg, MagSub(b.mag, a.mag))

BigSub(a, b) == BigAdd(a, BigNeg(b))

BigShift(a, k) == BigInt(a.neg, MagShift(a.mag, k))

-----------------------------------------------------------------------------
(* bigdecimal::BigDecimal: an unscaled BigInt and a scale, the value being *)
(* int_val * 10^(-scale)                                                   *)

BigDecimal(int_val, scale) == [int_val |-> int_val, scale |-> scale]

\* BigDecimal::from(i32)
DecFromI32(n) == BigDecimal(BigFromI32(n), 0)

\* BigDecimal::from_str of the digits of n with s of them after the point
DecFromStr(n, s) == BigDecimal(BigFromI32(n), s)

\* Mul: the unscaled values multiply, the scales add
DecMul(a, b) == BigDecimal(BigMul(a.int_val, b.int_val), a.scale + b.scale)

Max(x, y) == IF x >= y THEN x ELSE y

\* the unscaled value of a at the larger scale s
DecAlign(a, s) == BigShift(a.int_val, s - a.scale)

\* Add: the operand of the smaller scale is brought to the larger one
DecAdd(a, b) ==
    LET s == Max(a.scale, b.scale)
    IN  BigDecimal(BigAdd(DecAlign(a, s), DecAlign(b, s)), s)

DecSub(a, b) ==
    LET s == Max(a.scale, b.scale)
    IN  BigDecimal(BigSub(DecAlign(a, s), DecAlign(b, s)), s)

\* PartialEq: equal as numbers, whatever the scales
DecEq(a, b) ==
    LET s == Max(a.scale, b.scale) IN DecAlign(a, s) = DecAlign(b, s)

\* Sum for BigDecimal: a left fold of Add from zero
RECURSIVE DecSum(_)
DecSum(ds) ==
    IF ds = <<>> THEN DecFromI32(0)
    ELSE DecAdd(DecSum(SubSeq(ds, 1, Len(ds) - 1)), ds[Len(ds)])

-----------------------------------------------------------------------------
(* Result<T, E> of a build: Ok(value) or Err(UninitializedField(field))    *)

Ok(v) == [ok |-> TRUE, value |-> v]

UninitializedField(f) == [ok |-> FALSE, field |-> f]

-----------------------------------------------------------------------------
(* LineItem and LineItemBuilder                                            *)

I32Max == 2147483647

I32Min == -I32Max - 1

\* the values the setters are called with
Skus == {"ABC123"}

Titles == {"Gadget"}

Quantities == {I32Min, -1, 0, 1, 2, 3, I32Max}

\* 9.50, 10.00, 2.50, -0.333, 0 and 7
Prices == {DecFromStr(950, 2), DecFromStr(1000, 2), DecFromStr(250, 2),
           DecFromStr(-333, 3), DecFromI32(0), DecFromI32(7)}

\* LineItemBuilder::default()
LineItemBuilderDefault ==
    [sku |-> None, title |-> None, quantity |-> None, price |-> None]

\* the setters derive_builder generates (into; owned pattern)
LineItemBuilder_sku(b, v) == [b EXCEPT !.sku = Some(v)]

LineItemBuilder_title(b, v) == [b EXCEPT !.title = Some(v)]

LineItemBuilder_quantity(b, v) == [b EXCEPT !.quantity = Some(v)]

LineItemBuilder_price(b, v) == [b EXCEPT !.price = Some(v)]

\* src/src/invoice.rs: the hand-written build, which stores total
LineItemBuilderBuildStored(b) ==
    IF b.quantity = None THEN UninitializedField("quantity")
    ELSE IF b.price = None THEN UninitializedField("price")
    ELSE IF b.sku = None THEN UninitializedField("sku")
    ELSE IF b.title = None THEN UninitializedField("title")
    ELSE Ok([total    |-> DecMul(DecFromI32(Unwrap(b.quantity)), Unwrap(b.price)),
             sku      |-> Unwrap(b.sku),
             title    |-> Unwrap(b.title),
             quantity |-> Unwrap(b.quantity),
             price    |-> Unwrap(b.price)])

\* src/invoice-pdf/src/invoice.rs: the build derive_builder generates, one
\* field after the other in the order the struct declares them
LineItemBuilderBuildDerived(b) ==
    IF b.sku = None THEN UninitializedField("sku")
    ELSE IF b.title = None THEN UninitializedField("title")
    ELSE IF b.quantity = None THEN UninitializedField("quantity")
    ELSE IF b.price = None THEN UninitializedField("price")
    ELSE Ok([sku      |-> Unwrap(b.sku),
             title    |-> Unwrap(b.title),
             quantity |-> Unwrap(b.quantity),
             price    |-> Unwrap(b.price)])

LineItemBuilderBuild(v, b) ==
    IF v = "stored" THEN LineItemBuilderBuildStored(b)
    ELSE LineItemBuilderBuildDerived(b)

\* a total that adds where it should multiply
LineItem_total_Added(v, l) == DecAdd(l.price, DecFromI32(l.quantity))

\* LineItem::total: the stored field, or price * quantity on every call
LineItem_total(v, l) ==
    IF v = "stored" THEN l.total
    ELSE DecMul(l.price, DecFromI32(l.quantity))

-----------------------------------------------------------------------------
(* Invoice and InvoiceBuilder                                              *)

Ids == {"inv-1"}

\* make_party("Receiver"), make_party("Sender")
Receivers == {[name |-> "Receiver", phone |-> None, email |-> None, address |-> None]}

Senders == {[name |-> "Sender", phone |-> None, email |-> None, address |-> None]}

Logos == {"./logo.png"}

AcctIds == {"acct-9"}

PurchaseOrders == {"po-4"}

\* an instant no clock reading of the model equals
Datetimes == {-5}

\* 5.00 and 1
Paids == {DecFromStr(500, 2), DecFromI32(1)}

\* the line items the invoices are built from: 1 x 10.00, 3 x 2.50, -2 x 0.333
LineInputs ==
    {[sku |-> Some("A"), title |-> Some("Item A"), quantity |-> Some(1),
      price |-> Some(DecFromStr(1000, 2))],
     [sku |-> Some("B"), title |-> Some("Item B"), quantity |-> Some(3),
      price |-> Some(DecFromStr(250, 2))],
     [sku |-> Some("C"), title |-> Some("Item C"), quantity |-> Some(-2),
      price |-> Some(DecFromStr(333, 3))]}

Lines(v) == {LineItemBuilderBuild(v, b).value : b \in LineInputs}

\* the vectors the line_items setter is called with
LineVectors(v) == {<<>>}

\* InvoiceBuilder::default()
InvoiceBuilderDefault ==
    [id |-> None, created_datetime |-> None, net_due_datetime |-> None,
     receiver |-> None, sender |-> None, logo |-> None, line_items |-> None,
     paid |-> None, acct_id |-> None, purchase_order |-> None]

\* an add_line that puts the new line first
add_line_Prepend(b, line) ==
    IF b.line_items # None
    THEN [b EXCEPT !.line_items = Some(<<line>> \o Unwrap(b.line_items))]
    ELSE [b EXCEPT !.line_items = Some(<<line>>)]

\* InvoiceBuilder::add_line
add_line(b, line) ==
    IF b.line_items # None
    THEN [b EXCEPT !.line_items = Some(Append(Unwrap(b.line_items), line))]
    ELSE [b EXCEPT !.line_items = Some(<<line>>)]

\* the setters derive_builder generates (strip_option, into; owned pattern)
InvoiceBuilder_id(b, v) == [b EXCEPT !.id = Some(v)]

InvoiceBuilder_created_datetime(b, v) == [b EXCEPT !.created_datetime = Some(v)]

InvoiceBuilder_net_due_datetime(b, v) == [b EXCEPT !.net_due_datetime = Some(v)]

InvoiceBuilder_receiver(b, v) == [b EXCEPT !.receiver = Some(v)]

\* a sender setter that validates early: it takes no sender before the id is set
InvoiceBuilder_sender_Eager(b, v) ==
    IF b.id = None THEN b ELSE [b EXCEPT !.sender = Some(v)]

InvoiceBuilder_sender(b, v) == [b EXCEPT !.sender = Some(v)]

InvoiceBuilder_logo(b, v) == [b EXCEPT !.logo = Some(Some(v))]

InvoiceBuilder_line_items(b, v) == [b EXCEPT !.line_items = Some(v)]

InvoiceBuilder_paid(b, v) == [b EXCEPT !.paid = Some(v)]

InvoiceBuilder_acct_id(b, v) == [b EXCEPT !.acct_id = Some(Some(v))]

InvoiceBuilder_purchase_order(b, v) == [b EXCEPT !.purchase_order = Some(Some(v))]

\* a sum of the unit prices in place of the line totals
StoredTotals_Prices(ls) == DecSum([i \in 1..Len(ls) |-> ls[i].price])

\* line_items.iter().map(LineItem::total).sum()
StoredTotals(ls) == DecSum([i \in 1..Len(ls) |-> ls[i].total])

\* a sum that starts after the first line
ComputedTotals_SkipFirst(ls) ==
    DecSum([i \in 1..(Len(ls) - 1) |-> DecMul(DecFromI32(ls[i + 1].quantity), ls[i + 1].price)])

\* a sum of the unit prices, the quantities forgotten
ComputedTotals_NoQuantity(ls) == DecSum([i \in 1..Len(ls) |-> ls[i].price])

\* line_items.iter().map(|l| l.quantity * &l.price).sum()
ComputedTotals(ls) ==
    DecSum([i \in 1..Len(ls) |-> DecMul(DecFromI32(ls[i].quantity), ls[i].price)])

\* a build whose net_due_datetime defaults to thirty days after now
InvoiceBuilderBuildStored_Net30(b, now1, now2) ==
    IF b.id = None THEN UninitializedField("id")
    ELSE IF b.receiver = None THEN UninitializedField("receiver")
    ELSE IF b.sender = None THEN UninitializedField("sender")
    ELSE LET line_items == UnwrapOr(b.line_items, <<>>)
             paid == UnwrapOr(b.paid, DecFromI32(0))
             total == StoredTotals(line_items)
         IN  Ok([id               |-> Unwrap(b.id),
                 created_datetime |-> UnwrapOr(b.created_datetime, now1),
                 net_due_datetime |-> UnwrapOr(b.net_due_datetime, now2 + 30),
                 receiver         |-> Unwrap(b.receiver),
                 sender           |-> Unwrap(b.sender),
                 logo             |-> UnwrapOr(b.logo, None),
                 line_items       |-> line_items,
                 paid             |-> paid,
                 due              |-> DecSub(total, paid),
                 total            |-> total,
                 acct_id          |-> UnwrapOr(b.acct_id, None),
                 purchase_order   |-> UnwrapOr(b.purchase_order, None)])

\* src/src/invoice.rs: the hand-written build; now1 and now2 are what the two
\* calls of Local::now() return
InvoiceBuilderBuildStored(b, now1, now2) ==
    IF b.id = None THEN UninitializedField("id")
    ELSE IF b.receiver = None THEN UninitializedField("receiver")
    ELSE IF b.sender = None THEN UninitializedField("sender")
    ELSE LET line_items == UnwrapOr(b.line_items, <<>>)
             paid == UnwrapOr(b.paid, DecFromI32(0))
             total == StoredTotals(line_items)
         IN  Ok([id               |-> Unwrap(b.id),
                 created_datetime |-> UnwrapOr(b.created_datetime, now1),
                 net_due_datetime |-> UnwrapOr(b.net_due_datetime, now2),
                 receiver         |-> Unwrap(b.receiver),
                 sender           |-> Unwrap(b.sender),
                 logo             |-> UnwrapOr(b.logo, None),
                 line_items       |-> line_items,
                 paid             |-> paid,
                 due              |-> DecSub(total, paid),
                 total            |-> total,
                 acct_id          |-> UnwrapOr(b.acct_id, None),
                 purchase_order   |-> UnwrapOr(b.purchase_order, None)])

\* a build that also insists on paid
InvoiceBuilderBuildDerived_PaidRequired(b, now1, now2) ==
    IF b.id = None THEN UninitializedField("id")
    ELSE IF b.receiver = None THEN UninitializedField("receiver")
    ELSE IF b.sender = None THEN UninitializedField("sender")
    ELSE IF b.paid = None THEN UninitializedField("paid")
    ELSE Ok([id               |-> Unwrap(b.id),
             created_datetime |-> UnwrapOr(b.created_datetime, now1),
             net_due_datetime |-> UnwrapOr(b.net_due_datetime, now2),
             receiver         |-> Unwrap(b.receiver),
             sender           |-> Unwrap(b.sender),
             logo             |-> UnwrapOr(b.logo, None),
             line_items       |-> UnwrapOr(b.line_items, <<>>),
             paid             |-> Unwrap(b.paid),
             acct_id          |-> UnwrapOr(b.acct_id, None),
             purchase_order   |-> UnwrapOr(b.purchase_order, None)])

\* src/invoice-pdf/src/invoice.rs: the build derive_builder generates from the
\* #[builder(default ...)] attributes, in the order the struct declares the fields
InvoiceBuilderBuildDerived(b, now1, now2) ==
    IF b.id = None THEN UninitializedField("id")
    ELSE IF b.receiver = None THEN UninitializedField("receiver")
    ELSE IF b.sender = None THEN UninitializedField("sender")
    ELSE Ok([id               |-> Unwrap(b.id),
             created_datetime |-> UnwrapOr(b.created_datetime, now1),
             net_due_datetime |-> UnwrapOr(b.net_due_datetime, now2),
             receiver         |-> Unwrap(b.receiver),
             sender           |-> Unwrap(b.sender),
             logo             |-> UnwrapOr(b.logo, None),
             line_items       |-> UnwrapOr(b.line_items, <<>>),
             paid             |-> UnwrapOr(b.paid, DecFromI32(0)),
             acct_id          |-> UnwrapOr(b.acct_id, None),
             purchase_order   |-> UnwrapOr(b.purchase_order, None)])

InvoiceBuilderBuild(v, b, now1, now2) ==
    IF v = "stored" THEN InvoiceBuilderBuildStored(b, now1, now2)
    ELSE InvoiceBuilderBuildDerived(b, now1, now2)

\* Invoice::net_due, the same in both revisions
net_due(inv) == DecSub(ComputedTotals(inv.line_items), inv.paid)

\* the invoice total: the stored field, or Invoice::total()
Invoice_total(v, inv) ==
    IF v = "stored" THEN inv.total ELSE ComputedTotals(inv.line_items)

\* Invoice::line_items
line_items(inv) == inv.line_items

-----------------------------------------------------------------------------
(* Address, Party and their derived builders                               *)

Line1s == {"1 street st", "2 road rd"}

Line2s == {"Apt 2"}

Cities == {"city"}

ProvinceCodes == {"PR"}

PostalCodes == {"Post"}

Names == {"Alice", "Bob"}

Phones == {"555-0100"}

Emails == {"alice@example.com"}

\* AddressBuilder::default()
AddressBuilderDefault ==
    [line1 |-> None, line2 |-> None, city |-> None, province_code |-> None,
     postal_code |-> None]

\* the setters: setter(strip_option, into) stores Some(value.into())
AddressBuilder_line1(b, v) == [b EXCEPT !.line1 = Some(v)]

AddressBuilder_line2(b, v) == [b EXCEPT !.line2 = Some(Some(v))]

AddressBuilder_city(b, v) == [b EXCEPT !.city = Some(v)]

AddressBuilder_province_code(b, v) == [b EXCEPT !.province_code = Some(v)]

AddressBuilder_postal_code(b, v) == [b EXCEPT !.postal_code = Some(v)]

\* a build with #[builder(default)] on postal_code as well
AddressBuilderBuild_PostalDefault(b) ==
    IF b.line1 = None THEN UninitializedField("line1")
    ELSE IF b.city = None THEN UninitializedField("city")
    ELSE IF b.province_code = None THEN UninitializedField("province_code")
    ELSE Ok([line1         |-> Unwrap(b.line1),
             line2         |-> UnwrapOr(b.line2, None),
             city          |-> Unwrap(b.city),
             province_code |-> Unwrap(b.province_code),
             postal_code   |-> UnwrapOr(b.postal_code, "")])

\* AddressBuilder::build as derive_builder generates it: the fields in the
\* order the struct declares them, #[builder(default)] for line2
AddressBuilderBuild(b) ==
    IF b.line1 = None THEN UninitializedField("line1")
    ELSE IF b.city = None THEN UninitializedField("city")
    ELSE IF b.province_code = None THEN UninitializedField("province_code")
    ELSE IF b.postal_code = None THEN UninitializedField("postal_code")
    ELSE Ok([line1         |-> Unwrap(b.line1),
             line2         |-> UnwrapOr(b.line2, None),
             city          |-> Unwrap(b.city),
             province_code |-> Unwrap(b.province_code),
             postal_code   |-> Unwrap(b.postal_code)])

\* make_address(), with and without the second line
Addresses ==
    {AddressBuilderBuild(
         [line1 |-> Some("1 street st"), line2 |-> l2, city |-> Some("city"),
          province_code |-> Some("PR"), postal_code |-> Some("Post")]).value :
       l2 \in {None, Some(Some("Apt 2"))}}

\* PartyBuilder::default()
PartyBuilderDefault == [name |-> None, phone |-> None, email |-> None, address |-> None]

PartyBuilder_name(b, v) == [b EXCEPT !.name = Some(v)]

PartyBuilder_phone(b, v) == [b EXCEPT !.phone = Some(Some(v))]

PartyBuilder_email(b, v) == [b EXCEPT !.email = Some(Some(v))]

PartyBuilder_address(b, v) == [b EXCEPT !.address = Some(Some(v))]

\* PartyBuilder::build as derive_builder generates it
PartyBuilderBuild(b) ==
    IF b.name = None THEN UninitializedField("name")
    ELSE Ok([name    |-> Unwrap(b.name),
             phone   |-> UnwrapOr(b.phone, None),
             email   |-> UnwrapOr(b.email, None),
             address |-> UnwrapOr(b.address, None)])

\* no call of generate_pdf under way
GIdle == [pc |-> "idle", id |-> "", fails |-> {}, ran |-> <<>>, result |-> None,
          calls |-> 0, open |-> {}]

\* no Address or Party builder in use, no codec run, no generate_pdf call, no
\* Invoice read
AIdle ==
    /\ ab = AddressBuilderDefault
    /\ pb = PartyBuilderDefault
    /\ codec = None
    /\ gp = GIdle
    /\ got = None

-----------------------------------------------------------------------------
(* error.rs: Error, its From conversions, add_context and Display          *)

\* format!("{:?}", e) of a std::io::Error made from an ErrorKind
DebugIo(e) == "Kind(" \o e.kind \o ")"

\* format!("{:?}", e) of a fantoccini error: the variant, with the io::Error
\* it wraps when it wraps one
DebugFantoccini(e) ==
    IF "io" \in DOMAIN e THEN e.variant \o "(" \o DebugIo(e.io) \o ")"
    ELSE e.variant

\* impl From<std::io::Error> for Error
From_io(value) ==
    [context |-> <<DebugIo(value)>>, kind |-> [tag |-> "Io", value |-> value]]

\* impl From<fantoccini::error::PrintConfigurationError> for Error
From_PrintConfigurationError(value) ==
    [context |-> <<DebugFantoccini(value)>>,
     kind |-> [tag |-> "FantocciniPrintError", value |-> value]]

\* impl From<fantoccini::error::NewSessionError> for Error
From_NewSessionError(value) ==
    [context |-> <<DebugFantoccini(value)>>,
     kind |-> [tag |-> "FantocciniNewSession", value |-> value]]

\* impl From<fantoccini::error::CmdError> for Error
From_CmdError(value) ==
    [context |-> <<DebugFantoccini(value)>>,
     kind |-> [tag |-> "FantocciniCmdError", value |-> value]]

\* a conversion that records the kind and no context
From_String_NoContext(value) ==
    [context |-> <<>>, kind |-> [tag |-> "Other", value |-> value]]

\* impl From<String> for Error
From_String(value) ==
    [context |-> <<value>>, kind |-> [tag |-> "Other", value |-> value]]

\* an add_context that puts the new context first
add_context_Front(e, ctx) == [e EXCEPT !.context = <<ctx>> \o e.context]

\* Error::add_context
add_context(e, ctx) == [e EXCEPT !.context = Append(e.context, ctx)]

\* Vec::reverse
RECURSIVE Reverse(_)
Reverse(s) == IF s = <<>> THEN <<>> ELSE Append(Reverse(Tail(s)), Head(s))

\* [String]::join
RECURSIVE Join(_, _)
Join(s, sep) ==
    IF s = <<>> THEN ""
    ELSE IF Len(s) = 1 THEN s[1]
    ELSE s[1] \o sep \o Join(Tail(s), sep)

\* impl Display for Error
Display(e) ==
    LET context == Reverse(e.context)
    IN  IF context = <<>> THEN "no context" ELSE Join(context, " -> ")

\* the causes and the contexts of the model: those of the crate's call sites
IoErrors == {[kind |-> "NotFound"], [kind |-> "BrokenPipe"]}

NewSessionErrors == {[variant |-> "Lost", io |-> [kind |-> "ConnectionRefused"]]}

CmdErrors == {[variant |-> "WaitTimeout"]}

PrintConfigurationErrors == {[variant |-> "NegativeMargins"]}

Messages == {"Port 4444 is already in use", "Chromedriver has stopped unexpectedly"}

Contexts == {"starting chromedriver", "starting chromedriver in cli",
             "connecting to client", "generating pdf"}

MaxContexts == 3

\* no error is under way
EIdle ==
    /\ err = None
    /\ hist = None

\* an error is made from a cause; tag and cause are what a reader of the call
\* site expects the kind and the innermost entry to be
Raise(e, tag, cause) ==
    /\ err = None
    /\ err' = Some(e)
    /\ hist' = Some([tag |-> tag, cause |-> cause, added |-> <<>>,
                     expected |-> cause])
    /\ UNCHANGED <<avars, bvars, cvars>>

E_From_io == \E v \in IoErrors : Raise(From_io(v), "Io", DebugIo(v))

E_From_PrintConfigurationError ==
    \E v \in PrintConfigurationErrors :
        Raise(From_PrintConfigurationError(v), "FantocciniPrintError", DebugFantoccini(v))

E_From_NewSessionError ==
    \E v \in NewSessionErrors :
        Raise(From_NewSessionError(v), "FantocciniNewSession", DebugFantoccini(v))

E_From_CmdError ==
    \E v \in CmdErrors : Raise(From_CmdError(v), "FantocciniCmdError", DebugFantoccini(v))

E_From_String == \E v \in Messages \cup {""} : Raise(From_String(v), "Other", v)

\* impl AddContext for Result<T, Error>, the Err arm: one more layer of context
E_add_context ==
    /\ err # None
    /\ Len(Unwrap(hist).added) < MaxContexts
    /\ \E ctx \in Contexts :
          /\ err' = Some(add_context(Unwrap(err), ctx))
          /\ hist' = Some([Unwrap(hist) EXCEPT
                              !.added = Append(@, ctx),
                              !.expected = ctx \o " -> " \o @])
    /\ UNCHANGED <<avars, bvars, cvars>>

\* the command line program is not running
CIdle ==
    /\ pc = "off"
    /\ chrome = "none"
    /\ port = "free"
    /\ polls = 0
    /\ started = None
    /\ cli = None
    /\ invoices = <<>>
    /\ idx = 0
    /\ result = None
    /\ trace = [seen |-> FALSE, read |-> FALSE, renders |-> <<>>, written |-> <<>>,
                kills |-> 0, entry |-> "unchecked", fallbacks |-> {}]

EInit ==
    /\ variant = "accessor"
    /\ lb = LineItemBuilderDefault
    /\ ib = InvoiceBuilderDefault
    /\ phase = "built"
    /\ out = None
    /\ clock = 0
    /\ added = <<>>
    /\ replaced = FALSE
    /\ EIdle
    /\ AIdle
    /\ CIdle

ENext ==
    \/ E_From_io \/ E_From_PrintConfigurationError \/ E_From_NewSessionError
    \/ E_From_CmdError \/ E_From_String \/ E_add_context

SpecError == EInit /\ [][ENext]_vars

-----------------------------------------------------------------------------
(* The builders as state machines: a run creates a LineItemBuilder or an   *)
(* InvoiceBuilder, calls its setters in any order and any number, and      *)
(* consumes it with build, which ends the run (build takes self).          *)

MaxLines == 2

MaxClock == 1

Variants == {"stored", "accessor"}

BInit ==
    /\ variant \in Variants
    /\ lb = LineItemBuilderDefault
    /\ ib = InvoiceBuilderDefault
    /\ phase \in {"LineItemBuilder", "InvoiceBuilder"}
    /\ out = None
    /\ clock = 0
    /\ added = <<>>
    /\ replaced = FALSE
    /\ EIdle
    /\ AIdle
    /\ CIdle

LB_sku ==
    /\ phase = "LineItemBuilder"
    /\ \E v \in Skus : lb' = LineItemBuilder_sku(lb, v)
    /\ UNCHANGED <<avars, evars, cvars, variant, ib, phase, out, clock, added, replaced>>

LB_title ==
    /\ phase = "LineItemBuilder"
    /\ \E v \in Titles : lb' = LineItemBuilder_title(lb, v)
    /\ UNCHANGED <<avars, evars, cvars, variant, ib, phase, out, clock, added, replaced>>

LB_quantity ==
    /\ phase = "LineItemBuilder"
    /\ \E v \in Quantities : lb' = LineItemBuilder_quantity(lb, v)
    /\ UNCHANGED <<avars, evars, cvars, variant, ib, phase, out, clock, added, replaced>>

LB_price ==
    /\ phase = "LineItemBuilder"
    /\ \E v \in Prices : lb' = LineItemBuilder_price(lb, v)
    /\ UNCHANGED <<avars, evars, cvars, variant, ib, phase, out, clock, added, replaced>>

LB_build ==
    /\ phase = "LineItemBuilder"
    /\ phase' = "built"
    /\ out' = Some([method |-> "LineItemBuilder::build", builder |-> lb,
                    result |-> LineItemBuilderBuild(variant, lb)])
    /\ UNCHANGED <<avars, evars, cvars, variant, lb, ib, clock, added, replaced>>

IB_id ==
    /\ phase = "InvoiceBuilder"
    /\ \E v \in Ids : ib' = InvoiceBuilder_id(ib, v)
    /\ UNCHANGED <<avars, evars, cvars, variant, lb, phase, out, clock, added, replaced>>

IB_created_datetime ==
    /\ phase = "InvoiceBuilder"
    /\ \E v \in Datetimes : ib' = InvoiceBuilder_created_datetime(ib, v)
    /\ UNCHANGED <<avars, evars, cvars, variant, lb, phase, out, clock, added, replaced>>

IB_net_due_datetime ==
    /\ phase = "InvoiceBuilder"
    /\ \E v \in Datetimes : ib' = InvoiceBuilder_net_due_datetime(ib, v)
    /\ UNCHANGED <<avars, evars, cvars, variant, lb, phase, out, clock, added, replaced>>

IB_receiver ==
    /\ phase = "InvoiceBuilder"
    /\ \E v \in Receivers : ib' = InvoiceBuilder_receiver(ib, v)
    /\ UNCHANGED <<avars, evars, cvars, variant, lb, phase, out, clock, added, replaced>>

IB_sender ==
    /\ phase = "InvoiceBuilder"
    /\ \E v \in Senders : ib' = InvoiceBuilder_sender(ib, v)
    /\ UNCHANGED <<avars, evars, cvars, variant, lb, phase, out, clock, added, replaced>>

IB_logo ==
    /\ phase = "InvoiceBuilder"
    /\ \E v \in Logos : ib' = InvoiceBuilder_logo(ib, v)
    /\ UNCHANGED <<avars, evars, cvars, variant, lb, phase, out, clock, added, replaced>>

IB_line_items ==
    /\ phase = "InvoiceBuilder"
    /\ \E v \in LineVectors(variant) : ib' = InvoiceBuilder_line_items(ib, v)
    /\ replaced' = TRUE
    /\ UNCHANGED <<avars, evars, cvars, variant, lb, phase, out, clock, added>>

IB_paid ==
    /\ phase = "InvoiceBuilder"
    /\ \E v \in Paids : ib' = InvoiceBuilder_paid(ib, v)
    /\ UNCHANGED <<avars, evars, cvars, variant, lb, phase, out, clock, added, replaced>>

IB_acct_id ==
    /\ phase = "InvoiceBuilder"
    /\ \E v \in AcctIds : ib' = InvoiceBuilder_acct_id(ib, v)
    /\ UNCHANGED <<avars, evars, cvars, variant, lb, phase, out, clock, added, replaced>>

IB_purchase_order ==
    /\ phase = "InvoiceBuilder"
    /\ \E v \in PurchaseOrders : ib' = InvoiceBuilder_purchase_order(ib, v)
    /\ UNCHANGED <<avars, evars, cvars, variant, lb, phase, out, clock, added, replaced>>

IB_add_line ==
    /\ phase = "InvoiceBuilder"
    /\ Len(added) < MaxLines
    /\ \E l \in Lines(variant) :
          /\ ib' = add_line(ib, l)
          /\ added' = Append(added, l)
    /\ UNCHANGED <<avars, evars, cvars, variant, lb, phase, out, clock, replaced>>

\* build reads the clock twice; the clock may move between the two reads
IB_build ==
    /\ phase = "InvoiceBuilder"
    /\ phase' = "built"
    /\ \E now2 \in clock..MaxClock :
          /\ out' = Some([method |-> "InvoiceBuilder::build", builder |-> ib,
                          now1 |-> clock, now2 |-> now2,
                          result |-> InvoiceBuilderBuild(variant, ib, clock, now2)])
          /\ clock' = now2
    /\ UNCHANGED <<avars, evars, cvars, variant, lb, ib, added, replaced>>

BNext ==
    \/ LB_sku \/ LB_title \/ LB_quantity \/ LB_price \/ LB_build
    \/ IB_id \/ IB_created_datetime \/ IB_net_due_datetime \/ IB_receiver
    \/ IB_sender \/ IB_logo \/ IB_line_items \/ IB_paid \/ IB_acct_id
    \/ IB_purchase_order \/ IB_add_line \/ IB_build

SpecBuild == BInit /\ [][BNext]_vars

-----------------------------------------------------------------------------
(* The Address and Party builders as state machines, as the builders above *)

PInit ==
    /\ variant \in Variants
    /\ lb = LineItemBuilderDefault
    /\ ib = InvoiceBuilderDefault
    /\ phase \in {"AddressBuilder", "PartyBuilder"}
    /\ out = None
    /\ clock = 0
    /\ added = <<>>
    /\ replaced = FALSE
    /\ EIdle
    /\ CIdle
    /\ AIdle

AB_line1 ==
    /\ phase = "AddressBuilder"
    /\ \E v \in Line1s : ab' = AddressBuilder_line1(ab, v)
    /\ UNCHANGED <<bvars, evars, cvars, pb, codec, gp, got>>

AB_line2 ==
    /\ phase = "AddressBuilder"
    /\ \E v \in Line2s : ab' = AddressBuilder_line2(ab, v)
    /\ UNCHANGED <<bvars, evars, cvars, pb, codec, gp, got>>

AB_city ==
    /\ phase = "AddressBuilder"
    /\ \E v \in Cities : ab' = AddressBuilder_city(ab, v)
    /\ UNCHANGED <<bvars, evars, cvars, pb, codec, gp, got>>

AB_province_code ==
    /\ phase = "AddressBuilder"
    /\ \E v \in ProvinceCodes : ab' = AddressBuilder_province_code(ab, v)
    /\ UNCHANGED <<bvars, evars, cvars, pb, codec, gp, got>>

AB_postal_code ==
    /\ phase = "AddressBuilder"
    /\ \E v \in PostalCodes : ab' = AddressBuilder_postal_code(ab, v)
    /\ UNCHANGED <<bvars, evars, cvars, pb, codec, gp, got>>

AB_build ==
    /\ phase = "AddressBuilder"
    /\ out' = Some([method |-> "AddressBuilder", builder |-> ab,
                    result |-> AddressBuilderBuild(ab)])
    /\ phase' = "built"
    /\ UNCHANGED <<avars, evars, cvars, variant, lb, ib, clock, added, replaced>>

PB_name ==
    /\ phase = "PartyBuilder"
    /\ \E v \in Names : pb' = PartyBuilder_name(pb, v)
    /\ UNCHANGED <<bvars, evars, cvars, ab, codec, gp, got>>

PB_phone ==
    /\ phase = "PartyBuilder"
    /\ \E v \in Phones : pb' = PartyBuilder_phone(pb, v)
    /\ UNCHANGED <<bvars, evars, cvars, ab, codec, gp, got>>

PB_email ==
    /\ phase = "PartyBuilder"
    /\ \E v \in Emails : pb' = PartyBuilder_email(pb, v)
    /\ UNCHANGED <<bvars, evars, cvars, ab, codec, gp, got>>

PB_address ==
    /\ phase = "PartyBuilder"
    /\ \E v \in Addresses : pb' = PartyBuilder_address(pb, v)
    /\ UNCHANGED <<bvars, evars, cvars, ab, codec, gp, got>>

PB_build ==
    /\ phase = "PartyBuilder"
    /\ out' = Some([method |-> "PartyBuilder", builder |-> pb,
                    result |-> PartyBuilderBuild(pb)])
    /\ phase' = "built"
    /\ UNCHANGED <<avars, evars, cvars, variant, lb, ib, clock, added, replaced>>

PNext ==
    \/ AB_line1 \/ AB_line2 \/ AB_city \/ AB_province_code \/ AB_postal_code
    \/ AB_build
    \/ PB_name \/ PB_phone \/ PB_email \/ PB_address \/ PB_build

SpecParty == PInit /\ [][PNext]_vars

-----------------------------------------------------------------------------
(* lib.rs and invoice-pdf-cli: start_chromedriver, generate_pdf and main   *)

MaxInvoices == 2

\* for _ in 0..100
PollLimit == 100

\* the invoices a run decodes: their ids
InvoiceInput(n) == [i \in 1..n |-> "inv-" \o ToString(i)]

\* --out: absent, or a directory
OutDirs == {None, Some("out")}

\* --data: absent, or a file
DataFiles == {None, Some("invoices.json")}

\* is_port_in_use: binding localhost:4444 fails
is_port_in_use(p) == p # "free"

\* Result<T, Error>
Good(v) == [ok |-> TRUE, value |-> v]

Bad(e) == [ok |-> FALSE, error |-> e]

\* impl AddContext for Result<T, Error>
result_add_context(r, ctx) == IF r.ok THEN r ELSE Bad(add_context(r.error, ctx))

\* the conversion of a minijinja::Error, as the other conversions are written
From_minijinja(value) ==
    [context |-> <<value.debug>>, kind |-> [tag |-> "Minijinja", value |-> value]]

MinijinjaErrors == {[debug |-> "Error { kind: InvalidOperation }"]}

\* the steps of generate_pdf that can fail
GenerateSteps == {"connect", "template_env", "render", "goto", "print_config", "print"}

\* generate_pdf returning at the step that failed, or the PDF bytes
generate_pdf(id, failed) ==
    IF failed = "connect"
    THEN \* connect_to_client
         {result_add_context(result_add_context(Bad(From_NewSessionError(e)),
              "connecting to client"), "generating pdf") : e \in NewSessionErrors}
    ELSE IF failed = "template_env"
    THEN {result_add_context(result_add_context(Bad(From_minijinja(e)),
              "setting up templating environment"), "generating pdf") : e \in MinijinjaErrors}
    ELSE IF failed = "render"
    THEN {result_add_context(result_add_context(Bad(From_minijinja(e)),
              "rendering html template"), "generating pdf") : e \in MinijinjaErrors}
    ELSE IF failed = "goto"
    THEN {result_add_context(result_add_context(Bad(From_CmdError(e)),
              "navigating to address"), "printing pdf") : e \in CmdErrors}
    ELSE IF failed = "print_config"
    THEN {result_add_context(result_add_context(Bad(From_PrintConfigurationError(e)),
              "configuring printer"), "printing pdf") : e \in PrintConfigurationErrors}
    ELSE IF failed = "print"
    THEN {result_add_context(Bad(From_CmdError(e)), "printing pdf") : e \in CmdErrors}
    ELSE {Good("%PDF " \o id)}

\* what a call of generate_pdf can do now: without a listener on port 4444 the
\* connection fails; with one, every step may fail or all succeed
GenerateOutcomes == IF port = "free" THEN {"connect"} ELSE GenerateSteps \cup {"none"}

\* a main that goes on whatever start_chromedriver returned
MainAfterStart_Ignored(r) == "parse"

\* main: start_chromedriver().add_context(..)? returns on Err
MainAfterStart(r) == IF r.ok THEN "parse" ELSE "done"

\* Child::kill on the child in state c: it ends a running child
Killed(c) == IF c = "running" THEN "killed" ELSE c

\* the port once the child is gone
Released(p) == IF p = "chromedriver" THEN "free" ELSE p

CInit ==
    /\ variant = "accessor"
    /\ lb = LineItemBuilderDefault
    /\ ib = InvoiceBuilderDefault
    /\ phase = "built"
    /\ out = None
    /\ clock = 0
    /\ added = <<>>
    /\ replaced = FALSE
    /\ EIdle
    /\ AIdle
    /\ pc = "start_chromedriver"
    /\ chrome = "none"
    /\ port \in {"free", "other"}
    /\ polls = 0
    /\ started = None
    /\ cli = None
    /\ invoices = <<>>
    /\ idx = 0
    /\ result = None
    /\ trace = [seen |-> FALSE, read |-> FALSE, renders |-> <<>>, written |-> <<>>,
                kills |-> 0, entry |-> "unchecked", fallbacks |-> {}]

Running == pc \notin {"off", "done", "exited"}

\* start_chromedriver: the port must be free at entry
SC_Entry ==
    /\ pc = "start_chromedriver"
    /\ IF is_port_in_use(port)
       THEN /\ started' = Some(Bad(add_context(From_String("Port 4444 is already in use"),
                                               "starting chromedriver")))
            /\ pc' = "main"
       ELSE /\ pc' = "spawn"
            /\ UNCHANGED started
    /\ trace' = [trace EXCEPT !.entry = port]
    /\ UNCHANGED <<avars, bvars, evars, chrome, port, polls, cli, invoices, idx, result>>

\* Command::new("chromedriver").spawn()?
SC_Spawn ==
    /\ pc = "spawn"
    /\ \/ /\ chrome' = "running"
          /\ pc' = "poll"
          /\ UNCHANGED started
       \/ /\ \E e \in IoErrors : started' = Some(Bad(From_io(e)))
          /\ pc' = "main"
          /\ UNCHANGED chrome
    /\ UNCHANGED <<avars, bvars, evars, port, polls, cli, invoices, idx, result, trace>>

\* one turn of the loop: the port, then try_wait, then the sleep
SC_Poll ==
    /\ pc = "poll"
    /\ polls < PollLimit
    /\ \/ /\ is_port_in_use(port)
          /\ started' = Some(Good("child"))
          /\ trace' = [trace EXCEPT !.seen = is_port_in_use(port)]
          /\ pc' = "main"
          /\ UNCHANGED polls
       \/ /\ ~is_port_in_use(port)
          /\ \E e \in IoErrors :
                started' = Some(Bad(add_context(From_io(e), "starting chromedriver")))
          /\ pc' = "main"
          /\ UNCHANGED <<polls, trace>>
       \/ /\ ~is_port_in_use(port)
          /\ chrome = "exited"
          /\ started' = Some(Bad(add_context(
                 From_String("Chromedriver has stopped unexpectedly"),
                 "starting chromedriver")))
          /\ pc' = "main"
          /\ UNCHANGED <<polls, trace>>
       \/ /\ ~is_port_in_use(port)
          /\ chrome = "running"
          /\ polls' = polls + 1
          /\ pc' = IF polls + 1 = PollLimit THEN "after_polls" ELSE "poll"
          /\ UNCHANGED <<started, trace>>
    /\ UNCHANGED <<avars, bvars, evars, chrome, port, cli, invoices, idx, result>>

\* after the loop: the port once more, and the child is killed if it is free
SC_AfterPolls ==
    /\ pc = "after_polls"
    /\ \/ /\ ~is_port_in_use(port)
          /\ \/ /\ chrome' = Killed(chrome)
                /\ started' = Some(Bad(add_context(
                       From_String("Chromedriver failed to bind to port 4444"),
                       "starting chromedriver")))
             \/ /\ \E e \in IoErrors : started' = Some(Bad(From_io(e)))
                /\ UNCHANGED chrome
          /\ trace' = [trace EXCEPT !.kills = @ + 1]
       \/ /\ is_port_in_use(port)
          /\ started' = Some(Good("child"))
          /\ trace' = [trace EXCEPT !.seen = is_port_in_use(port)]
          /\ UNCHANGED chrome
    /\ pc' = "main"
    /\ UNCHANGED <<avars, bvars, evars, port, polls, cli, invoices, idx, result>>

\* main: start_chromedriver().add_context("starting chromedriver in cli")?
M_Started ==
    /\ pc = "main"
    /\ pc' = MainAfterStart(Unwrap(started))
    /\ result' = IF pc' = "done"
                 THEN Some(result_add_context(Unwrap(started), "starting chromedriver in cli"))
                 ELSE result
    /\ UNCHANGED <<avars, bvars, evars, chrome, port, polls, started, cli, invoices, idx, trace>>

\* Cli::parse(): the arguments parse, or clap prints and exits the process
M_Parse ==
    /\ pc = "parse"
    /\ \/ /\ \E d \in DataFiles, o \in OutDirs : cli' = Some([data |-> d, out |-> o])
          /\ pc' = "get_invoices"
       \/ /\ pc' = "exited"
          /\ UNCHANGED cli
    /\ UNCHANGED <<avars, bvars, evars, chrome, port, polls, started, invoices, idx, result, trace>>

\* Cli::get_invoices: the read or the JSON decoding may fail
get_invoices(self, failed) ==
    IF failed = "read"
    THEN {result_add_context(Bad(From_io(e)),
              IF self.data # None
              THEN "reading invoice data from file '" \o Unwrap(self.data) \o "'"
              ELSE "reading invoice data from stdin") : e \in IoErrors}
    ELSE IF failed = "parse"
    THEN {result_add_context(Bad(From_String("expected value at line 1 column 1")),
                             "parsing invoice JSON")}
    ELSE {Good(InvoiceInput(n)) : n \in 0..MaxInvoices}

\* main: get_invoices, and on Err kill_chrome before returning
M_GetInvoices ==
    /\ pc = "get_invoices"
    /\ \E failed \in {"read", "parse", "none"} : \E r \in get_invoices(Unwrap(cli), failed) :
          IF r.ok
          THEN /\ invoices' = r.value
               /\ idx' = 1
               /\ pc' = IF r.value = <<>> THEN "kill" ELSE "write_invoice_pdf"
               /\ trace' = [trace EXCEPT !.read = TRUE]
               /\ UNCHANGED <<chrome, port, result>>
          ELSE /\ pc' = "done"
               /\ trace' = [trace EXCEPT !.read = TRUE, !.kills = @ + 1]
               /\ UNCHANGED <<invoices, idx>>
               /\ \/ /\ chrome' = Killed(chrome)
                     /\ port' = Released(port)
                     /\ result' = Some(result_add_context(r, "deserializing invoices from cli"))
                  \/ /\ \E e \in IoErrors :
                          result' = Some(result_add_context(
                              result_add_context(Bad(From_io(e)),
                                  "killing chromedriver process from cli"),
                              "deserializing invoices from cli"))
                     /\ UNCHANGED <<chrome, port>>
    /\ UNCHANGED <<avars, bvars, evars, polls, started, cli>>

\* the loop moves to the next invoice, or past the last one
NextInvoice ==
    /\ idx' = idx + 1
    /\ pc' = IF idx = Len(invoices) THEN "kill" ELSE "write_invoice_pdf"

\* a write_invoice_pdf whose failed render is passed over: the loop goes on
\* with the next invoice
W_Generate_GoOn ==
    /\ pc = "write_invoice_pdf"
    /\ \E o \in GenerateOutcomes :
          /\ trace' = [trace EXCEPT !.renders = Append(@, [invoice |-> idx, failed |-> o])]
          /\ \E r \in generate_pdf(invoices[idx], o) :
                IF r.ok
                THEN /\ pc' = IF Unwrap(cli).out # None THEN "fs_write" ELSE "to_stdout"
                     /\ UNCHANGED <<idx, result>>
                ELSE /\ NextInvoice
                     /\ UNCHANGED result
    /\ UNCHANGED <<avars, bvars, evars, chrome, port, polls, started, cli, invoices>>

\* write_invoice_pdf: generate_pdf(invoice), two contexts, ?
W_Generate ==
    /\ pc = "write_invoice_pdf"
    /\ \E o \in GenerateOutcomes :
          /\ trace' = [trace EXCEPT !.renders = Append(@, [invoice |-> idx, failed |-> o])]
          /\ \E r \in generate_pdf(invoices[idx], o) :
                IF r.ok
                THEN /\ pc' = IF Unwrap(cli).out # None THEN "fs_write" ELSE "to_stdout"
                     /\ UNCHANGED result
                ELSE /\ pc' = "done"
                     /\ result' = Some(result_add_context(
                            result_add_context(r, "generating pdf data from invoice"),
                            "invoice id: " \o invoices[idx]))
    /\ UNCHANGED <<avars, bvars, evars, chrome, port, polls, started, cli, invoices, idx>>

\* the path write_invoice_pdf joins: out/<invoice id>.pdf
PdfPath(i) == Unwrap(Unwrap(cli).out) \o "/" \o invoices[i] \o ".pdf"

\* a write_invoice_pdf that goes on to the standard output after a successful
\* file write as well
W_FsWrite_AlsoStdout ==
    /\ pc = "fs_write"
    /\ trace' = [trace EXCEPT !.written = Append(@, [invoice |-> idx, to |-> PdfPath(idx)])]
    /\ pc' = "to_stdout"
    /\ UNCHANGED <<avars, bvars, evars, chrome, port, polls, started, cli, invoices, idx, result>>

\* a write_invoice_pdf that returns the error of the failed file write
W_FsWrite_ReturnsError ==
    /\ pc = "fs_write"
    /\ \/ /\ trace' = [trace EXCEPT !.written =
                          Append(@, [invoice |-> idx, to |-> PdfPath(idx)])]
          /\ NextInvoice
          /\ UNCHANGED result
       \/ /\ trace' = [trace EXCEPT !.fallbacks = @ \cup {idx}]
          /\ \E e \in IoErrors : result' = Some(Bad(From_io(e)))
          /\ pc' = "done"
          /\ UNCHANGED idx
    /\ UNCHANGED <<avars, bvars, evars, chrome, port, polls, started, cli, invoices>>

\* write_invoice_pdf: std::fs::write(out/<id>.pdf, data), standard output if it
\* fails; a failed write leaves no complete PDF at the path
W_FsWrite ==
    /\ pc = "fs_write"
    /\ \/ /\ trace' = [trace EXCEPT !.written =
                          Append(@, [invoice |-> idx, to |-> PdfPath(idx)])]
          /\ NextInvoice
       \/ /\ trace' = [trace EXCEPT !.fallbacks = @ \cup {idx}]
          /\ pc' = "to_stdout"
          /\ UNCHANGED idx
    /\ UNCHANGED <<avars, bvars, evars, chrome, port, polls, started, cli, invoices, result>>

\* write_invoice_pdf_to_stdout: generate_pdf(invoice) once more, two contexts, ?
W_StdoutGenerate ==
    /\ pc = "to_stdout"
    /\ \E o \in GenerateOutcomes :
          /\ trace' = [trace EXCEPT !.renders = Append(@, [invoice |-> idx, failed |-> o])]
          /\ \E r \in generate_pdf(invoices[idx], o) :
                IF r.ok
                THEN /\ pc' = "stdout_write"
                     /\ UNCHANGED result
                ELSE /\ pc' = "done"
                     /\ result' = Some(result_add_context(
                            result_add_context(r, "generating invoice pdf"),
                            "printing to stdout"))
    /\ UNCHANGED <<avars, bvars, evars, chrome, port, polls, started, cli, invoices, idx>>

\* write_invoice_pdf_to_stdout: write_all, then flush
W_StdoutWrite ==
    /\ pc = "stdout_write"
    /\ \/ /\ trace' = [trace EXCEPT !.written = Append(@, [invoice |-> idx, to |-> "stdout"])]
          /\ NextInvoice
          /\ UNCHANGED result
       \/ /\ \E e \in IoErrors :
                result' = Some(result_add_context(Bad(From_io(e)),
                                                  "writing invoice pdf to stdout"))
          /\ pc' = "done"
          /\ UNCHANGED <<idx, trace>>
       \/ /\ \E e \in IoErrors :
                result' = Some(result_add_context(
                    result_add_context(Bad(From_io(e)), "flushing stdout"),
                    "printing to stdout"))
          /\ trace' = [trace EXCEPT !.written = Append(@, [invoice |-> idx, to |-> "stdout"])]
          /\ pc' = "done"
          /\ UNCHANGED idx
    /\ UNCHANGED <<avars, bvars, evars, chrome, port, polls, started, cli, invoices>>

\* main: kill_chrome after the loop
M_Kill ==
    /\ pc = "kill"
    /\ pc' = "done"
    /\ trace' = [trace EXCEPT !.kills = @ + 1]
    /\ \/ /\ chrome' = Killed(chrome)
          /\ port' = Released(port)
          /\ result' = Some(Good("()"))
       \/ /\ \E e \in IoErrors :
                result' = Some(result_add_context(Bad(From_io(e)),
                                                  "killing chromedriver process from cli"))
          /\ UNCHANGED <<chrome, port>>
    /\ UNCHANGED <<avars, bvars, evars, polls, started, cli, invoices, idx>>

\* the world around the program: chromedriver binds its port
Env_Bind ==
    /\ Running
    /\ chrome = "running"
    /\ port = "free"
    /\ port' = "chromedriver"
    /\ UNCHANGED <<avars, bvars, evars, pc, chrome, polls, started, cli, invoices, idx, result, trace>>

\* chromedriver ends on its own
Env_Exit ==
    /\ Running
    /\ chrome = "running"
    /\ chrome' = "exited"
    /\ port' = Released(port)
    /\ UNCHANGED <<avars, bvars, evars, pc, polls, started, cli, invoices, idx, result, trace>>

\* another process takes the free port, or gives it back
Env_Other ==
    /\ Running
    /\ port \in {"free", "other"}
    /\ port' = IF port = "free" THEN "other" ELSE "free"
    /\ UNCHANGED <<avars, bvars, evars, pc, chrome, polls, started, cli, invoices, idx, result, trace>>

CNext ==
    \/ SC_Entry \/ SC_Spawn \/ SC_Poll \/ SC_AfterPolls
    \/ M_Started \/ M_Parse \/ M_GetInvoices
    \/ W_Generate \/ W_FsWrite \/ W_StdoutGenerate \/ W_StdoutWrite
    \/ M_Kill
    \/ Env_Bind \/ Env_Exit \/ Env_Other

SpecCli == CInit /\ [][CNext]_vars

-----------------------------------------------------------------------------
(* The serde codecs of invoice.rs.  A string is the sequence of its        *)
(* characters; a JSON value is a string, a number or null.                 *)

DigitChars == <<"0", "1", "2", "3", "4", "5", "6", "7", "8", "9">>

DigitChar(d) == DigitChars[d + 1]

IsDigit(c) == \E d \in 0..9 : DigitChars[d + 1] = c

DigitVal(c) == CHOOSE d \in 0..9 : DigitChars[d + 1] = c

\* the decimal digits of a magnitude, most significant first
MagToChars(mag) ==
    IF mag = <<>> THEN <<"0">>
    ELSE [i \in 1..Len(mag) |-> DigitChar(mag[Len(mag) + 1 - i])]

\* the magnitude of a sequence of digit characters
CharsToMag(cs) == MagNorm([i \in 1..Len(cs) |-> DigitVal(cs[Len(cs) + 1 - i])])

Zeros(k) == [i \in 1..k |-> "0"]

\* str::find: the first index holding one of the characters, 0 if none
Find(cs, set) ==
    IF \E i \in 1..Len(cs) : cs[i] \in set
    THEN CHOOSE i \in 1..Len(cs) : cs[i] \in set /\ \A j \in 1..(i - 1) : cs[j] \notin set
    ELSE 0

JString(cs) == [type |-> "string", chars |-> cs, items |-> <<>>]

JNumber(cs) == [type |-> "number", chars |-> cs, items |-> <<>>]

JNull == [type |-> "null", chars |-> <<>>, items |-> <<>>]

JArray(items) == [type |-> "array", chars |-> <<>>, items |-> items]

\* an object whose decoding is not followed field by field: what it decodes to
JObject(v) == [type |-> "object", chars |-> <<>>, items |-> <<v>>]

\* String::deserialize: only a JSON string is a String
String_deserialize(json) ==
    IF json.type = "string" THEN Good(json.chars)
    ELSE Bad("invalid type: " \o json.type \o ", expected a string")

SignChars(neg) == IF neg THEN <<"-">> ELSE <<>>

\* positional, without the zeros between the point and the digits
format_full_scale_NoPad(d) ==
    LET abs == MagToChars(d.int_val.mag)
        n   == Len(abs)
    IN  SignChars(d.int_val.neg) \o
        (IF d.scale <= 0 THEN abs \o Zeros(-d.scale)
         ELSE IF d.scale < n
              THEN SubSeq(abs, 1, n - d.scale) \o <<".">> \o SubSeq(abs, n - d.scale + 1, n)
              ELSE <<"0", ".">> \o abs)

\* Display of a BigDecimal, positional: the digits with the point scale places
\* from the right, zeros filling what the digits do not reach
format_full_scale(d) ==
    LET abs == MagToChars(d.int_val.mag)
        n   == Len(abs)
    IN  SignChars(d.int_val.neg) \o
        (IF d.scale <= 0 THEN abs \o Zeros(-d.scale)
         ELSE IF d.scale < n
              THEN SubSeq(abs, 1, n - d.scale) \o <<".">> \o SubSeq(abs, n - d.scale + 1, n)
              ELSE <<"0", ".">> \o Zeros(d.scale - n) \o abs)

\* Display of a BigDecimal far below one: d.dddE-x
format_exponential(d) ==
    LET abs == MagToChars(d.int_val.mag)
        n   == Len(abs)
    IN  SignChars(d.int_val.neg) \o <<abs[1]>> \o
        (IF n > 1 THEN <<".">> \o SubSeq(abs, 2, n) ELSE <<>>) \o
        <<"E", "-">> \o MagToChars(MagFromNat(d.scale - (n - 1)))

\* Display of a BigDecimal with many trailing zeros: ddde+x
format_dotless_exponential(d) ==
    SignChars(d.int_val.neg) \o MagToChars(d.int_val.mag) \o
    <<"e", "+">> \o MagToChars(MagFromNat(-d.scale))

\* BigDecimal::to_string.  Every release of bigdecimal writes the positional
\* form within five zeros after the point and fifteen before it; beyond,
\* the releases differ: positional or exponential
BigDecimal_to_string(d) ==
    LET n     == Len(MagToChars(d.int_val.mag))
        lead  == IF d.scale > n THEN d.scale - n ELSE 0
        trail == IF d.scale < 0 THEN -d.scale ELSE 0
    IN  {format_full_scale(d)}
        \cup (IF lead > 5 THEN {format_exponential(d)} ELSE {})
        \cup (IF lead <= 5 /\ trail > 15 THEN {format_dotless_exponential(d)} ELSE {})

\* an optional sign, then digits and nothing else
SignedDigits(cs) ==
    LET signed == cs # <<>> /\ cs[1] \in {"+", "-"}
        body   == IF signed THEN Tail(cs) ELSE cs
    IN  IF body = <<>> \/ \E i \in 1..Len(body) : ~IsDigit(body[i])
        THEN Bad("invalid digit")
        ELSE Good([neg |-> signed /\ cs[1] = "-", digits |-> body])

\* BigInt::from_str
BigInt_from_str(cs) ==
    LET r == SignedDigits(cs)
    IN  IF r.ok THEN Good(BigInt(r.value.neg, CharsToMag(r.value.digits))) ELSE r

RECURSIVE CharsToNat(_)
CharsToNat(cs) ==
    IF cs = <<>> THEN 0 ELSE 10 * CharsToNat(SubSeq(cs, 1, Len(cs) - 1)) + DigitVal(cs[Len(cs)])

\* the exponent: i128::from_str (the exponents of the model are small)
Int_from_str(cs) ==
    LET r == SignedDigits(cs)
    IN  IF r.ok
        THEN Good(IF r.value.neg THEN -CharsToNat(r.value.digits)
                  ELSE CharsToNat(r.value.digits))
        ELSE r

\* BigDecimal::from_str: the exponent after e or E, the digits around the
\* point as one integer, the scale the count of digits after the point less
\* the exponent
BigDecimal_from_str(cs) ==
    LET e    == Find(cs, {"e", "E"})
        base == IF e = 0 THEN cs ELSE SubSeq(cs, 1, e - 1)
        expo == IF e = 0 THEN Good(0) ELSE Int_from_str(SubSeq(cs, e + 1, Len(cs)))
    IN  IF ~expo.ok THEN Bad("ParseInt")
        ELSE IF base = <<>> THEN Bad("Empty")
        ELSE LET dot    == Find(base, {"."})
                 last   == Len(base)
                 digits == IF dot = 0 THEN base
                           ELSE IF dot = last THEN SubSeq(base, 1, last - 1)
                           ELSE SubSeq(base, 1, dot - 1) \o SubSeq(base, dot + 1, last)
                 offset == IF dot = 0 \/ dot = last THEN 0 ELSE last - dot
                 int    == BigInt_from_str(digits)
             IN  IF int.ok THEN Good(BigDecimal(int.value, offset - expo.value))
                 ELSE Bad("ParseBigInt")

\* serialize_bigdecimal: serializer.serialize_str(&value.to_string())
serialize_bigdecimal(value) == {JString(cs) : cs \in BigDecimal_to_string(value)}

\* deserialize_bigdecimal: String::deserialize, then BigDecimal::from_str
deserialize_bigdecimal(json) ==
    LET s == String_deserialize(json)
    IN  IF ~s.ok THEN s
        ELSE LET r == BigDecimal_from_str(s.value)
             IN  IF r.ok THEN r ELSE Bad("custom: " \o r.error)

\* chrono: the days from 1970-01-01 to the civil date y-m-d (proleptic Gregorian)
days_from_civil(y, m, d) ==
    LET yy  == IF m <= 2 THEN y - 1 ELSE y
        era == yy \div 400
        yoe == yy - era * 400
        mp  == IF m > 2 THEN m - 3 ELSE m + 9
        doy == (153 * mp + 2) \div 5 + d - 1
        doe == yoe * 365 + yoe \div 4 - yoe \div 100 + doy
    IN  era * 146097 + doe - 719468

\* chrono: the civil date of a day number
civil_from_days(z) ==
    LET zz  == z + 719468
        era == zz \div 146097
        doe == zz - era * 146097
        yoe == (doe - doe \div 1460 + doe \div 36524 - doe \div 146096) \div 365
        doy == doe - (365 * yoe + yoe \div 4 - yoe \div 100)
        mp  == (5 * doy + 2) \div 153
        d   == doy - (153 * mp + 2) \div 5 + 1
        m   == IF mp < 10 THEN mp + 3 ELSE mp - 9
    IN  [year |-> yoe + era * 400 + (IF m <= 2 THEN 1 ELSE 0), month |-> m, day |-> d]

IsLeapYear(y) == y % 4 = 0 /\ (y % 100 # 0 \/ y % 400 = 0)

DaysInMonth(y, m) ==
    IF m = 2 THEN (IF IsLeapYear(y) THEN 29 ELSE 28)
    ELSE IF m \in {4, 6, 9, 11} THEN 30 ELSE 31

AllDigits(cs) == cs # <<>> /\ \A i \in 1..Len(cs) : IsDigit(cs[i])

\* the digits of n, at least w of them
RECURSIVE Padded(_, _)
Padded(n, w) ==
    IF w <= 1 /\ n < 10 THEN <<DigitChar(n)>>
    ELSE Padded(n \div 10, w - 1) \o <<DigitChar(n % 10)>>

\* the length of the run of digits at the head of cs
RECURSIVE DigitRun(_)
DigitRun(cs) == IF cs = <<>> \/ ~IsDigit(cs[1]) THEN 0 ELSE 1 + DigitRun(Tail(cs))

\* chrono scan::nanosecond: up to nine digits count, as if followed by zeros;
\* the digits after the ninth are skipped
Nanosecond(ds) ==
    LET kept == SubSeq(ds, 1, IF Len(ds) < 9 THEN Len(ds) ELSE 9)
    IN  CharsToNat(kept \o Zeros(9 - Len(kept)))

\* the offset at the end of an RFC 3339 string, in seconds east of UTC
ParseOffset(cs) ==
    IF cs = <<"Z">> \/ cs = <<"z">> THEN Good(0)
    ELSE IF /\ Len(cs) = 6
            /\ cs[1] \in {"+", "-"}
            /\ AllDigits(SubSeq(cs, 2, 3))
            /\ cs[4] = ":"
            /\ AllDigits(SubSeq(cs, 5, 6))
    THEN LET hh == CharsToNat(SubSeq(cs, 2, 3))
             mm == CharsToNat(SubSeq(cs, 5, 6))
         IN  IF hh > 23 \/ mm > 59 THEN Bad("OutOfRange")
             ELSE Good((IF cs[1] = "-" THEN -1 ELSE 1) * (hh * 3600 + mm * 60))
    ELSE Bad("Invalid")

\* a local date and time and an offset as the DateTime<FixedOffset> chrono
\* keeps: the UTC day and second of the day, the nanosecond, whether the
\* second is a leap second, and the offset
MakeDateTime(y, m, d, h, mi, sec, nanos, offset) ==
    LET leap  == sec = 60
        local == h * 3600 + mi * 60 + (IF leap THEN 59 ELSE sec)
        utc   == local - offset
    IN  [days   |-> days_from_civil(y, m, d) + utc \div 86400,
         secs   |-> utc % 86400,
         nanos  |-> nanos,
         leap   |-> leap,
         offset |-> offset]

\* DateTime::parse_from_rfc3339
parse_from_rfc3339(cs) ==
    IF Len(cs) < 20 THEN Bad("TooShort")
    ELSE IF ~(/\ AllDigits(SubSeq(cs, 1, 4)) /\ cs[5] = "-"
              /\ AllDigits(SubSeq(cs, 6, 7)) /\ cs[8] = "-"
              /\ AllDigits(SubSeq(cs, 9, 10)) /\ cs[11] \in {"T", "t", " "}
              /\ AllDigits(SubSeq(cs, 12, 13)) /\ cs[14] = ":"
              /\ AllDigits(SubSeq(cs, 15, 16)) /\ cs[17] = ":"
              /\ AllDigits(SubSeq(cs, 18, 19)))
    THEN Bad("Invalid")
    ELSE LET y    == CharsToNat(SubSeq(cs, 1, 4))
             m    == CharsToNat(SubSeq(cs, 6, 7))
             d    == CharsToNat(SubSeq(cs, 9, 10))
             h    == CharsToNat(SubSeq(cs, 12, 13))
             mi   == CharsToNat(SubSeq(cs, 15, 16))
             sec  == CharsToNat(SubSeq(cs, 18, 19))
             rest == SubSeq(cs, 20, Len(cs))
             run  == IF rest[1] = "." THEN DigitRun(Tail(rest)) ELSE 0
             frac == SubSeq(rest, 2, 1 + run)
             zone == IF rest[1] = "." THEN SubSeq(rest, 2 + run, Len(rest)) ELSE rest
             off  == ParseOffset(zone)
         IN  IF rest[1] = "." /\ run = 0 THEN Bad("Invalid")
             ELSE IF ~off.ok THEN off
             ELSE IF \/ m < 1 \/ m > 12 \/ d < 1 \/ d > DaysInMonth(y, m)
                     \/ h > 23 \/ mi > 59 \/ sec > 60
             THEN Bad("OutOfRange")
             ELSE Good(MakeDateTime(y, m, d, h, mi, sec,
                                    IF run = 0 THEN 0 ELSE Nanosecond(frac), off.value))

\* SecondsFormat::AutoSi: no fraction, or three, six or nine digits of it
AutoSi(nanos) ==
    IF nanos = 0 THEN <<>>
    ELSE IF nanos % 1000000 = 0 THEN <<".">> \o Padded(nanos \div 1000000, 3)
    ELSE IF nanos % 1000 = 0 THEN <<".">> \o Padded(nanos \div 1000, 6)
    ELSE <<".">> \o Padded(nanos, 9)

\* the offset written as a UTC instant's, whatever it is
OffsetChars_Utc(offset) == <<"+", "0", "0", ":", "0", "0">>

\* the offset as to_rfc3339 writes it: sign, hours, colon, minutes; never Z
OffsetChars(offset) ==
    LET a == IF offset < 0 THEN -offset ELSE offset
    IN  <<IF offset < 0 THEN "-" ELSE "+">> \o Padded(a \div 3600, 2) \o <<":">>
        \o Padded((a \div 60) % 60, 2)

\* DateTime::to_rfc3339: the local date and time, the fraction, the offset
to_rfc3339(dt) ==
    LET local == dt.secs + dt.offset
        date  == civil_from_days(dt.days + local \div 86400)
        sod   == local % 86400
    IN  Padded(date.year, 4) \o <<"-">> \o Padded(date.month, 2) \o <<"-">>
        \o Padded(date.day, 2) \o <<"T">>
        \o Padded(sod \div 3600, 2) \o <<":">> \o Padded((sod \div 60) % 60, 2) \o <<":">>
        \o Padded((sod % 60) + (IF dt.leap THEN 1 ELSE 0), 2)
        \o AutoSi(dt.nanos) \o OffsetChars(dt.offset)

\* serialize_datetime: serializer.serialize_str(&value.to_rfc3339())
serialize_datetime(value) == JString(to_rfc3339(value))

\* deserialize_datetime: String::deserialize, then DateTime::parse_from_rfc3339
deserialize_datetime(json) ==
    LET s == String_deserialize(json)
    IN  IF ~s.ok THEN s
        ELSE LET r == parse_from_rfc3339(s.value)
             IN  IF r.ok THEN r ELSE Bad("custom: " \o r.error)

\* Display of a BigDecimal with a precision ({:.prec}): the digits beyond the
\* precision go, zeros fill what is missing.  The releases of bigdecimal
\* differ in how the last digit kept is settled (cut, or rounded half to even)
\* and in the sign of a negative amount that comes out as zero
Display_precision(d, prec) ==
    LET mag  == d.int_val.mag
        k    == d.scale - prec
        kept == IF k <= 0 THEN MagShift(mag, -k)
                ELSE IF k >= Len(mag) THEN <<>>
                ELSE SubSeq(mag, k + 1, Len(mag))
        top  == IF k <= 0 \/ k > Len(mag) THEN 0 ELSE mag[k]
        rest == k > 1 /\ k <= Len(mag) /\ \E i \in 1 .. (k - 1) : mag[i] # 0
        odd  == kept # <<>> /\ kept[1] % 2 = 1
        up   == top > 5 \/ (top = 5 /\ (rest \/ odd))
        mags == {kept, IF up THEN MagAdd(kept, <<1>>) ELSE kept}
    IN  UNION {{format_full_scale([int_val |-> [neg |-> neg, mag |-> m], scale |-> prec]) :
                   neg \in {d.int_val.neg, d.int_val.neg /\ m # <<>>}} : m \in mags}

\* a pretty_price that prints the amount as it is
pretty_price_AsIs(raw) ==
    LET r == BigDecimal_from_str(raw)
    IN  IF ~r.ok THEN {<<"N", "a", "N">>}
        ELSE {<<"$">> \o c : c \in BigDecimal_to_string(r.value)}

\* template_env::pretty_price
pretty_price(raw) ==
    LET r == BigDecimal_from_str(raw)
    IN  IF ~r.ok THEN {<<"N", "a", "N">>}
        ELSE {<<"$">> \o c : c \in Display_precision(r.value, 2)}

\* template_env::format_ymd: the local date of the timestamp
format_ymd(raw) ==
    LET r == parse_from_rfc3339(raw)
    IN  IF ~r.ok THEN <<"N", "/", "A">>
        ELSE LET local == r.value.secs + r.value.offset
                 date  == civil_from_days(r.value.days + local \div 86400)
             IN  Padded(date.year, 4) \o <<"-">> \o Padded(date.month, 2) \o <<"-">>
                 \o Padded(date.day, 2)

\* i32::deserialize: a JSON integer within the 32 bits
i32_deserialize(json) ==
    IF json.type # "number" THEN Bad("invalid type: " \o json.type \o ", expected i32")
    ELSE LET r == SignedDigits(json.chars)
         IN  IF ~r.ok \/ (json.chars # <<>> /\ json.chars[1] = "+")
             THEN Bad("invalid type: floating point, expected i32")
             ELSE IF Len(r.value.digits) > 9 THEN Bad("invalid value: out of range")
             ELSE Good(IF r.value.neg THEN -CharsToNat(r.value.digits)
                       ELSE CharsToNat(r.value.digits))

\* Option<String>::deserialize: null is None
OptionString_deserialize(json) ==
    IF json.type = "null" THEN Good(None)
    ELSE LET r == String_deserialize(json) IN IF r.ok THEN Good(Some(r.value)) ELSE r

\* a field of a JSON object: absent, or its value
MissingField(f) == Bad("missing field " \o f)

\* a required field through the deserializer de
Required(obj, f, de(_)) == IF obj[f] = None THEN MissingField(f) ELSE de(Unwrap(obj[f]))

\* an Option field: absent is None
Optional(obj, f) ==
    IF obj[f] = None THEN Good(None) ELSE OptionString_deserialize(Unwrap(obj[f]))

\* the first Err of the sequence of results, or none
FirstErr(rs) ==
    IF \A i \in 1..Len(rs) : rs[i].ok THEN None
    ELSE Some(rs[CHOOSE i \in 1..Len(rs) : ~rs[i].ok /\ \A j \in 1..(i - 1) : rs[j].ok])

\* the LineItem of its decoded fields, or their first failure
LineItemOf(rs) ==
    LET bad == FirstErr(rs)
    IN  IF bad # None THEN Unwrap(bad)
        ELSE Good([sku |-> rs[1].value, title |-> rs[2].value,
                   quantity |-> rs[3].value, price |-> rs[4].value])

\* #[derive(Deserialize)] for LineItem
LineItem_deserialize(obj) ==
    LineItemOf(<<Required(obj, "sku", String_deserialize),
                 Required(obj, "title", String_deserialize),
                 Required(obj, "quantity", i32_deserialize),
                 Required(obj, "price", deserialize_bigdecimal)>>)

\* the values of a sequence of results, or their first failure
Collect(rs) ==
    LET bad == FirstErr(rs)
    IN  IF bad # None THEN Unwrap(bad) ELSE Good([i \in 1..Len(rs) |-> rs[i].value])

\* Vec<LineItem>::deserialize: a JSON array, element by element
VecLineItem_deserialize(json) ==
    IF json.type # "array" THEN Bad("invalid type: " \o json.type \o ", expected a sequence")
    ELSE Collect([i \in 1..Len(json.items) |-> LineItem_deserialize(json.items[i])])

\* Party::deserialize of a party already decoded
Party_deserialize(json) ==
    IF json.type # "object" THEN Bad("invalid type: " \o json.type \o ", expected struct Party")
    ELSE Good(json.items[1])

\* a decoder that takes the default of the builder for absent line items
InvoiceFields_Defaults(obj) ==
    <<Required(obj, "id", String_deserialize),
      Required(obj, "created_datetime", deserialize_datetime),
      Required(obj, "net_due_datetime", deserialize_datetime),
      Required(obj, "receiver", Party_deserialize),
      Required(obj, "sender", Party_deserialize),
      Optional(obj, "logo"),
      IF obj.line_items = None THEN Good(<<>>)
      ELSE Required(obj, "line_items", VecLineItem_deserialize),
      Required(obj, "paid", deserialize_bigdecimal),
      Optional(obj, "acct_id"),
      Optional(obj, "purchase_order")>>

\* the decoders of the fields of Invoice, in the order the struct declares
\* them (the keys of the object are taken in that order)
InvoiceFields(obj) ==
    <<Required(obj, "id", String_deserialize),
      Required(obj, "created_datetime", deserialize_datetime),
      Required(obj, "net_due_datetime", deserialize_datetime),
      Required(obj, "receiver", Party_deserialize),
      Required(obj, "sender", Party_deserialize),
      Optional(obj, "logo"),
      Required(obj, "line_items", VecLineItem_deserialize),
      Required(obj, "paid", deserialize_bigdecimal),
      Optional(obj, "acct_id"),
      Optional(obj, "purchase_order")>>

\* the Invoice of its decoded fields
InvoiceValue(rs) ==
    [id               |-> rs[1].value,
     created_datetime |-> rs[2].value,
     net_due_datetime |-> rs[3].value,
     receiver         |-> rs[4].value,
     sender           |-> rs[5].value,
     logo             |-> rs[6].value,
     line_items       |-> rs[7].value,
     paid             |-> rs[8].value,
     acct_id          |-> rs[9].value,
     purchase_order   |-> rs[10].value]

\* a decoder that replaces a malformed paid by the default of the builder
InvoiceOf_Lenient(rs) ==
    LET bad == FirstErr([rs EXCEPT ![8] = Good(DecFromI32(0))])
    IN  IF bad # None THEN Unwrap(bad)
        ELSE Good(InvoiceValue([rs EXCEPT ![8] = IF rs[8].ok THEN rs[8]
                                                 ELSE Good(DecFromI32(0))]))

\* the Invoice of its decoded fields, or their first failure
InvoiceOf(rs) ==
    LET bad == FirstErr(rs)
    IN  IF bad # None THEN Unwrap(bad) ELSE Good(InvoiceValue(rs))

\* #[derive(Deserialize)] for Invoice: every field through its deserializer,
\* the first failure returned
Invoice_deserialize(obj) == InvoiceOf(InvoiceFields(obj))

\* serde_json::from_str::<Vec<Invoice>>: record by record, the first failure
\* is the result
from_str_invoices(raws) == Collect([i \in 1..Len(raws) |-> Invoice_deserialize(raws[i])])

\* Cli::get_invoices on the text read: from_str, the error as a String, a context
WithParseContext(r) ==
    IF r.ok THEN r
    ELSE result_add_context(Bad(From_String("Error(" \o r.error \o ")")),
                            "parsing invoice JSON")

parse_invoices(raws) == WithParseContext(from_str_invoices(raws))

-----------------------------------------------------------------------------
(* lib.rs: generate_pdf, one step at a time                                *)

\* the fallible steps of generate_pdf in the order the function takes them
StepOrder == <<"connect", "template_env", "render", "goto", "print_config", "print">>

StepAfter(s) ==
    LET k == CHOOSE j \in 1 .. Len(StepOrder) : StepOrder[j] = s
    IN  IF k = Len(StepOrder) THEN "return" ELSE StepOrder[k + 1]

\* the invoices generate_pdf is called with: their ids
RenderIds == {InvoiceInput(MaxInvoices)[i] : i \in 1 .. MaxInvoices}

RInit ==
    /\ variant = "accessor"
    /\ lb = LineItemBuilderDefault
    /\ ib = InvoiceBuilderDefault
    /\ phase = "built"
    /\ out = None
    /\ clock = 0
    /\ added = <<>>
    /\ replaced = FALSE
    /\ EIdle
    /\ CIdle
    /\ ab = AddressBuilderDefault
    /\ pb = PartyBuilderDefault
    /\ codec = None
    /\ got = None
    /\ \E id \in RenderIds, fails \in SUBSET GenerateSteps :
          gp = [pc |-> StepOrder[1], id |-> id, fails |-> fails, ran |-> <<>>, result |-> None,
                calls |-> 1, open |-> {}]

\* how many times generate_pdf is called in a run
MaxCalls == 2

\* ClientBuilder::connect: a successful connect opens the WebDriver session of
\* call n; no other step opens one
Connected(s, n, open) == IF s = "connect" THEN open \cup {n} ELSE open

\* a step whose failure is dropped: the function goes on to the next step
Try_Swallow(s) ==
    /\ gp.pc = s
    /\ gp' = [gp EXCEPT !.ran = Append(@, s), !.pc = StepAfter(s)]
    /\ UNCHANGED <<bvars, evars, cvars, ab, pb, codec, got>>

\* one fallible step with its map_err, add_context and ?: a failure returns
\* at once, a success goes on to the next step
Try(s) ==
    /\ gp.pc = s
    /\ IF s \in gp.fails
       THEN \E r \in generate_pdf(gp.id, s) :
               gp' = [gp EXCEPT !.ran = Append(@, s), !.pc = "returned", !.result = Some(r)]
       ELSE gp' = [gp EXCEPT !.ran = Append(@, s), !.pc = StepAfter(s),
                             !.open = Connected(s, gp.calls, @)]
    /\ UNCHANGED <<bvars, evars, cvars, ab, pb, codec, got>>

\* connect_to_client().await
G_connect == Try("connect")

\* setup_template_env()
G_template_env == Try("template_env")

\* render_template(&template_env, invoice)
G_render == Try("render")

\* client.goto(&data_url).await
G_goto == Try("goto")

\* PrintConfigurationBuilder::default()...build(), the argument of print
G_print_config == Try("print_config")

\* client.print(..).await
G_print == Try("print")

\* Ok(..): the bytes print returned
G_return ==
    /\ gp.pc = "return"
    /\ \E r \in generate_pdf(gp.id, "none") :
          gp' = [gp EXCEPT !.pc = "returned", !.result = Some(r)]
    /\ UNCHANGED <<bvars, evars, cvars, ab, pb, codec, got>>

\* generate_pdf is called once more
G_call ==
    /\ gp.pc = "returned"
    /\ gp.calls < MaxCalls
    /\ \E id \in RenderIds, fails \in SUBSET GenerateSteps :
          gp' = [gp EXCEPT !.pc = StepOrder[1], !.id = id, !.fails = fails, !.ran = <<>>,
                           !.result = None, !.calls = @ + 1]
    /\ UNCHANGED <<bvars, evars, cvars, ab, pb, codec, got>>

\* the Client of a call that has returned is dropped; fantoccini then starts
\* the shutdown of its session on the runtime, which ends the session at some
\* later time, if the runtime gets to it
S_shutdown ==
    /\ \E n \in gp.open :
          /\ n < gp.calls \/ gp.pc = "returned"
          /\ gp' = [gp EXCEPT !.open = @ \ {n}]
    /\ UNCHANGED <<bvars, evars, cvars, ab, pb, codec, got>>

RNext ==
    \/ G_connect
    \/ G_template_env
    \/ G_render
    \/ G_goto
    \/ G_print_config
    \/ G_print
    \/ G_return
    \/ G_call
    \/ S_shutdown

SpecRender == RInit /\ [][RNext]_vars

-----------------------------------------------------------------------------
(* The built Invoice in use: build has returned it, and its accessors are  *)
(* called any number of times                                              *)

\* add_line called with each line of ls in turn
RECURSIVE AddLines(_, _)
AddLines(b, ls) == IF ls = <<>> THEN b ELSE AddLines(add_line(b, Head(ls)), Tail(ls))

LineSeqs(v) == UNION {[1 .. n -> Lines(v)] : n \in 0 .. MaxLines}

\* the builders build returns an Invoice from: id, receiver and sender set, the
\* lines added one by one, paid set or not
CompleteBuilders(v) ==
    {AddLines(IF p = None THEN b ELSE InvoiceBuilder_paid(b, Unwrap(p)), ls) :
        b  \in {InvoiceBuilder_sender(InvoiceBuilder_receiver(
                    InvoiceBuilder_id(InvoiceBuilderDefault, id), r), sn) :
                    id \in Ids, r \in Receivers, sn \in Senders},
        p  \in {None} \cup {Some(x) : x \in Paids},
        ls \in LineSeqs(v)}

IInit ==
    /\ variant \in Variants
    /\ lb = LineItemBuilderDefault
    /\ ib \in CompleteBuilders(variant)
    /\ phase = "built"
    /\ out = Some([method |-> "InvoiceBuilder::build", builder |-> ib,
                   now1 |-> 0, now2 |-> 0,
                   result |-> InvoiceBuilderBuild(variant, ib, 0, 0)])
    /\ clock = 0
    /\ added = UnwrapOr(ib.line_items, <<>>)
    /\ replaced = FALSE
    /\ EIdle
    /\ CIdle
    /\ ab = AddressBuilderDefault
    /\ pb = PartyBuilderDefault
    /\ codec = None
    /\ gp = GIdle
    /\ got = None

\* Invoice::net_due(&self)
I_net_due ==
    /\ got' = Some([method |-> "net_due", value |-> net_due(Unwrap(out).result.value)])
    /\ UNCHANGED <<bvars, evars, cvars, ab, pb, codec, gp>>

\* the invoice total read: the stored field, or Invoice::total(&self)
I_total ==
    /\ got' = Some([method |-> "total",
                    value |-> Invoice_total(variant, Unwrap(out).result.value)])
    /\ UNCHANGED <<bvars, evars, cvars, ab, pb, codec, gp>>

\* Invoice::line_items(&self)
I_line_items ==
    /\ got' = Some([method |-> "line_items", value |-> line_items(Unwrap(out).result.value)])
    /\ UNCHANGED <<bvars, evars, cvars, ab, pb, codec, gp>>

\* #[derive(Serialize)] on LineItem: one key per declared field
LineItem_serialize(v, l) ==
    IF v = "stored"
    THEN [sku |-> l.sku, title |-> l.title, quantity |-> l.quantity, price |-> l.price,
          total |-> l.total]
    ELSE [sku |-> l.sku, title |-> l.title, quantity |-> l.quantity, price |-> l.price]

SerializeLines(v, ls) == [k \in 1 .. Len(ls) |-> LineItem_serialize(v, ls[k])]

\* #[derive(Serialize)] on Invoice: one key per declared field
Invoice_serialize(v, inv) ==
    IF v = "stored"
    THEN [id |-> inv.id, created_datetime |-> inv.created_datetime,
          net_due_datetime |-> inv.net_due_datetime, receiver |-> inv.receiver,
          sender |-> inv.sender, logo |-> inv.logo,
          line_items |-> SerializeLines(v, inv.line_items), paid |-> inv.paid,
          total |-> inv.total, due |-> inv.due, acct_id |-> inv.acct_id,
          purchase_order |-> inv.purchase_order]
    ELSE [id |-> inv.id, created_datetime |-> inv.created_datetime,
          net_due_datetime |-> inv.net_due_datetime, receiver |-> inv.receiver,
          sender |-> inv.sender, logo |-> inv.logo,
          line_items |-> SerializeLines(v, inv.line_items), paid |-> inv.paid,
          acct_id |-> inv.acct_id, purchase_order |-> inv.purchase_order]

\* render_template: context! { lines => invoice.line_items(), invoice => invoice }
render_context(v, inv) ==
    [lines |-> SerializeLines(v, line_items(inv)), invoice |-> Invoice_serialize(v, inv)]

\* BASE: the keys of invoice whose amounts the totals table prints, and the
\* keys of line the loop over lines prints
BaseInvoiceAmounts == {"total", "paid", "due"}

BaseLineKeys == {"sku", "title", "quantity", "price", "total"}

\* render_template(env, invoice): the context the template is rendered with
I_render ==
    /\ got' = Some([method |-> "render_template",
                    value |-> render_context(variant, Unwrap(out).result.value)])
    /\ UNCHANGED <<bvars, evars, cvars, ab, pb, codec, gp>>

INext ==
    \/ I_net_due
    \/ I_total
    \/ I_line_items
    \/ I_render

SpecInvoice == IInit /\ [][INext]_vars

-----------------------------------------------------------------------------
(* The codecs at work: a run serializes a decimal and reads it back, reads *)
(* a timestamp and writes it back, or decodes a sequence of invoice        *)
(* records.                                                                *)

MaxRecords == 2

\* the unscaled magnitudes: 0, 5, 125, 1250, 123456789012
Magnitudes == {<<>>, <<5>>, <<5, 2, 1>>, <<0, 5, 2, 1>>, <<2, 1, 0, 9, 8, 7, 6, 5, 4, 3, 2, 1>>}

Scales == {-16, -2, 0, 1, 2, 3, 4, 9, 20}

DecimalValues ==
    {BigDecimal(BigInt(neg, mag), sc) : neg \in BOOLEAN, mag \in Magnitudes, sc \in Scales}

\* RFC 3339 date-time = full-date "T" partial-time time-offset
FullDates == {<<"2", "0", "2", "6", "-", "0", "2", "-", "0", "9">>,
     <<"2", "0", "2", "4", "-", "0", "2", "-", "2", "9">>,
     <<"2", "0", "2", "6", "-", "1", "2", "-", "3", "1">>,
     <<"0", "0", "0", "0", "-", "0", "1", "-", "0", "1">>,
     <<"9", "9", "9", "9", "-", "1", "2", "-", "3", "1">>}

PartialTimes == {<<"1", "2", ":", "0", "0", ":", "0", "0">>,
     <<"0", "0", ":", "0", "0", ":", "0", "0">>,
     <<"2", "3", ":", "5", "9", ":", "5", "9">>,
     <<"2", "3", ":", "5", "9", ":", "6", "0">>}

\* time-secfrac = "." 1*DIGIT
SecFracs == {<<>>,
     <<".", "5">>,
     <<".", "0", "0", "0">>,
     <<".", "1", "2", "3", "4", "5", "6">>,
     <<".", "1", "2", "3", "4", "5", "6", "7", "8", "9">>,
     <<".", "1", "2", "3", "4", "5", "6", "7", "8", "9", "1">>}

\* time-offset = "Z" / time-numoffset
TimeOffsets == {<<"Z">>,
     <<"z">>,
     <<"+", "0", "0", ":", "0", "0">>,
     <<"-", "0", "0", ":", "0", "0">>,
     <<"+", "0", "5", ":", "3", "0">>,
     <<"-", "0", "8", ":", "0", "0">>,
     <<"+", "2", "3", ":", "5", "9">>,
     <<"-", "2", "3", ":", "5", "9">>}

TimestampStrings ==
    {d \o <<t>> \o pt \o f \o z :
        d \in FullDates, t \in {"T", "t"}, pt \in PartialTimes, f \in SecFracs,
        z \in TimeOffsets}

\* strings that are no RFC 3339 date-time: not a date, a date alone, the 30th
\* of February, the 25th hour, no offset
MalformedTimestamps == {<<"r", "e", "e", "e">>,
     <<"2", "0", "2", "6", "-", "0", "2", "-", "1", "0">>,
     <<"2", "0", "2", "6", "-", "0", "2", "-", "3", "0", "T", "1", "2", ":", "0", "0", ":", "0", "0", "Z">>,
     <<"2", "0", "2", "6", "-", "0", "2", "-", "1", "0", "T", "2", "5", ":", "0", "0", ":", "0", "0", "Z">>,
     <<"2", "0", "2", "6", "-", "0", "2", "-", "1", "0", "T", "1", "2", ":", "0", "0", ":", "0", "0">>,
     <<>>}

\* strings that are no decimal number
MalformedDecimals == {<<"r", "e", "e", "e">>,
     <<>>,
     <<"1", "2", ",", "5", "0">>,
     <<"1", ".", "2", ".", "3">>,
     <<"$", "5">>}

GoodDecimalTexts == {<<"1", "2", ".", "5", "0">>,
     <<"-", "0", ".", "3", "3", "3">>,
     <<"7">>}

\* what a decimal field can hold that is not a numeric string
BadDecimalFields == {JString(cs) : cs \in MalformedDecimals} \cup {JNull}

\* what a timestamp field can hold that is not an RFC 3339 string
BadTimestampFields == {JString(cs) : cs \in MalformedTimestamps} \cup {JNull, JNumber(<<"0">>)}

RawLine ==
    [sku |-> Some(JString(<<"A">>)), title |-> Some(JString(<<"I", "t", "e", "m">>)),
     quantity |-> Some(JNumber(<<"3">>)), price |-> Some(JString(<<"2", ".", "5", "0">>))]

\* a record every field of which decodes
RawInvoice ==
    [id               |-> Some(JString(<<"i", "n", "v", "-", "1">>)),
     created_datetime |-> Some(JString(<<"2", "0", "2", "6", "-", "0", "2", "-", "0", "9", "T", "1", "2", ":", "0", "0", ":", "0", "0", "+", "0", "0", ":", "0", "0">>)),
     net_due_datetime |-> Some(JString(<<"2", "0", "2", "6", "-", "0", "3", "-", "1", "1", "T", "1", "2", ":", "0", "0", ":", "0", "0", "-", "0", "5", ":", "0", "0">>)),
     receiver         |-> Some(JObject(CHOOSE r \in Receivers : TRUE)),
     sender           |-> Some(JObject(CHOOSE r \in Senders : TRUE)),
     logo             |-> None,
     line_items       |-> Some(JArray(<<RawLine>>)),
     paid             |-> Some(JString(<<"5", ".", "0", "0">>)),
     acct_id          |-> None,
     purchase_order   |-> Some(JString(<<"p", "o", "-", "4">>))]

\* the records of the input: the good one, and it with one field changed
RawInvoices ==
    {RawInvoice}
    \cup {[RawInvoice EXCEPT !.paid = Some(j)] :
            j \in BadDecimalFields \cup {JString(cs) : cs \in GoodDecimalTexts}}
    \cup {[RawInvoice EXCEPT !.created_datetime = Some(j)] : j \in BadTimestampFields}
    \cup {[RawInvoice EXCEPT !.net_due_datetime = Some(j)] : j \in BadTimestampFields}
    \cup {[RawInvoice EXCEPT !.line_items =
              Some(JArray(<<RawLine, [RawLine EXCEPT !.price = Some(j)]>>))] :
            j \in BadDecimalFields}
    \cup {[RawInvoice EXCEPT !.line_items = Some(JArray(<<>>))]}

RawSequences == UNION {[1..n -> RawInvoices] : n \in 0..MaxRecords}

\* the fields of Invoice the builder has a default for: those that are not
\* an Option, and those that are
DefaultedFields == {"paid", "line_items", "created_datetime", "net_due_datetime"}

OptionFields == {"logo", "acct_id", "purchase_order"}

\* the good record with every Option field present
RawInvoiceFull ==
    [RawInvoice EXCEPT !.logo = Some(JString(<<"l", ".", "p", "n", "g">>)),
                       !.acct_id = Some(JString(<<"a", "-", "7">>))]

\* records that leave a field out
RawOmissions ==
    {RawInvoice, RawInvoiceFull}
    \cup {[RawInvoiceFull EXCEPT ![f] = None] : f \in DefaultedFields \cup OptionFields}
    \cup {[RawInvoice EXCEPT !.purchase_order = None]}

OmissionSequences == UNION {[1..n -> RawOmissions] : n \in 0..MaxRecords}

KInit ==
    /\ variant = "accessor"
    /\ lb = LineItemBuilderDefault
    /\ ib = InvoiceBuilderDefault
    /\ phase = "built"
    /\ out = None
    /\ clock = 0
    /\ added = <<>>
    /\ replaced = FALSE
    /\ EIdle
    /\ AIdle
    /\ CIdle

\* serialize_bigdecimal, then deserialize_bigdecimal of what it wrote
K_bigdecimal ==
    /\ codec = None
    /\ \E x \in DecimalValues : \E j \in serialize_bigdecimal(x) :
          codec' = Some([op |-> "bigdecimal", value |-> x, json |-> j,
                         back |-> deserialize_bigdecimal(j)])
    /\ UNCHANGED <<bvars, evars, cvars, ab, pb, gp, got>>

\* deserialize_datetime, then serialize_datetime of what it read
K_datetime ==
    /\ codec = None
    /\ \E cs \in TimestampStrings \cup MalformedTimestamps :
          LET r == deserialize_datetime(JString(cs))
          IN  codec' = Some([op |-> "datetime", json |-> JString(cs), parsed |-> r,
                             back |-> IF r.ok THEN Some(serialize_datetime(r.value))
                                      ELSE None])
    /\ UNCHANGED <<bvars, evars, cvars, ab, pb, gp, got>>

\* Cli::get_invoices decoding the records of its input
K_decode ==
    /\ codec = None
    /\ \E raws \in RawSequences \cup OmissionSequences :
          codec' = Some([op |-> "decode", raws |-> raws,
                         records |-> [i \in 1..Len(raws) |-> Invoice_deserialize(raws[i])],
                         result |-> parse_invoices(raws)])
    /\ UNCHANGED <<bvars, evars, cvars, ab, pb, gp, got>>

\* what the template hands to pretty_price: decimal texts of fewer than two,
\* two and more than two fractional digits, negative ones, ties, an exponent
PriceTexts == GoodDecimalTexts \cup
    {<<"1", "2", ".", "5">>,
     <<"-", "1", "2", ".", "5">>,
     <<"9", ".", "9", "9", "9">>,
     <<"-", "3", ".", "1", "4", "1", "5", "9">>,
     <<"0", ".", "0", "0", "5">>,
     <<"0", ".", "0", "1", "5">>,
     <<"0", ".", "0", "2", "5">>,
     <<"-", "0", ".", "0", "0", "1">>,
     <<"1", "e", "3">>,
     <<"7">>,
     <<".", "5">>,
     <<"1", "9", ".", "9", "9", "5">>,
     <<"1", "2", "3", "4", "5", "6", "7", "8", "9", "0", "1", "2", "3", ".", "4", "5", "6">>}

\* pretty_price of a text
K_pretty_price ==
    /\ codec = None
    /\ \E raw \in PriceTexts \cup MalformedDecimals : \E o \in pretty_price(raw) :
          codec' = Some([op |-> "pretty_price", raw |-> raw, out |-> o])
    /\ UNCHANGED <<bvars, evars, cvars, ab, pb, gp, got>>

\* format_ymd of a text
K_format_ymd ==
    /\ codec = None
    /\ \E raw \in TimestampStrings \cup MalformedTimestamps :
          codec' = Some([op |-> "format_ymd", raw |-> raw, out |-> format_ymd(raw)])
    /\ UNCHANGED <<bvars, evars, cvars, ab, pb, gp, got>>

KNext == K_bigdecimal \/ K_datetime \/ K_decode \/ K_pretty_price \/ K_format_ymd

SpecCodec == KInit /\ [][KNext]_vars

-----------------------------------------------------------------------------
(* What the properties measure with. The exact value of a decimal is read off *)
(* its digits modulo each of four primes whose product, above 4 * 10^18,   *)
(* exceeds twice every amount of the model: two amounts with the same      *)
(* residues are the same number.  The products stay below 2^31.            *)

Moduli == {46337, 46327, 46309, 46307}

RECURSIVE MagMod(_, _)
MagMod(mag, m) ==
    IF mag = <<>> THEN 0 ELSE (Head(mag) + 10 * MagMod(Tail(mag), m)) % m

BigMod(a, m) == IF a.neg THEN (m - MagMod(a.mag, m)) % m ELSE MagMod(a.mag, m)

RECURSIVE Pow10Mod(_, _)
Pow10Mod(k, m) == IF k = 0 THEN 1 ELSE (10 * Pow10Mod(k - 1, m)) % m

\* d * 10^s modulo m, for a scale s that is at least d's; -1 when it is not
DecMod(d, s, m) ==
    IF d.scale < 0 \/ d.scale > s THEN -1
    ELSE (BigMod(d.int_val, m) * Pow10Mod(s - d.scale, m)) % m

\* q * p * 10^s modulo m, from the quantity and the digits of the price
ExactProduct(q, p, s, m) ==
    ((((q % m) * BigMod(p.int_val, m)) % m) * Pow10Mod(s - p.scale, m)) % m

\* the sum of q * p * 10^s over the lines, modulo m
RECURSIVE ExactSum(_, _, _)
ExactSum(ls, s, m) ==
    IF ls = <<>> THEN 0
    ELSE (ExactSum(Tail(ls), s, m)
          + ExactProduct(Head(ls).quantity, Head(ls).price, s, m)) % m

RECURSIVE ScaleSum(_)
ScaleSum(ls) == IF ls = <<>> THEN 0 ELSE Head(ls).price.scale + ScaleSum(Tail(ls))

IsZero(d) == d.int_val.mag = <<>>

\* the terminal build ran
Built(method) == out # None /\ Unwrap(out).method = method

BuiltOk(method) == Built(method) /\ Unwrap(out).result.ok

BuiltErr(method) == Built(method) /\ ~Unwrap(out).result.ok

InvoiceRequired == <<"id", "receiver", "sender">>

InvoiceOptional ==
    {"created_datetime", "net_due_datetime", "logo", "line_items", "paid",
     "acct_id", "purchase_order"}

\* the order in which struct LineItem declares its builder fields
LineItemDeclared == <<"sku", "title", "quantity", "price">>

\* the first field of the list that the builder has not got
RECURSIVE FirstMissing(_, _)
FirstMissing(b, fields) ==
    IF fields = <<>> THEN "none"
    ELSE IF b[Head(fields)] = None THEN Head(fields)
    ELSE FirstMissing(b, Tail(fields))

-----------------------------------------------------------------------------
\* C1: for an Invoice built from the line items (q1,p1)..(qn,pn), n >= 0, and
\* paid p (zero when never set), the invoice total is exactly the sum of the
\* qi*pi and net_due() is exactly that sum minus p, in both revisions; the
\* invoice of the test (1 x 10.00, 3 x 2.50, paid 5.00) has total 17.50 and
\* 12.50 due.
C1_TotalsExact ==
    BuiltOk("InvoiceBuilder::build") =>
        LET b   == Unwrap(out).builder
            inv == Unwrap(out).result.value
            ls  == UnwrapOr(b.line_items, <<>>)
            s   == ScaleSum(ls) + UnwrapOr(b.paid, DecFromI32(0)).scale
        IN  /\ \A m \in Moduli :
                 LET sum == ExactSum(ls, s, m)
                     p   == IF b.paid = None THEN 0 ELSE DecMod(Unwrap(b.paid), s, m)
                 IN  /\ DecMod(Invoice_total(variant, inv), s, m) = sum
                     /\ DecMod(net_due(inv), s, m) = (sum + m - p) % m
            /\ (/\ Len(ls) = 2
                /\ ls[1].quantity = 1 /\ ls[1].price = DecFromStr(1000, 2)
                /\ ls[2].quantity = 3 /\ ls[2].price = DecFromStr(250, 2)
                /\ b.paid = Some(DecFromStr(500, 2)))
               => /\ DecEq(Invoice_total(variant, inv), DecFromStr(1750, 2))
                  /\ DecEq(net_due(inv), DecFromStr(1250, 2))

\* an invoice was built from two lines whose prices have different scales, one
\* with a negative quantity, and a payment
C1_Witness ==
    /\ BuiltOk("InvoiceBuilder::build")
    /\ LET ls == Unwrap(out).result.value.line_items
       IN  /\ Len(ls) = 2
           /\ ls[1].price.scale # ls[2].price.scale
           /\ ls[2].quantity < 0
    /\ Unwrap(out).builder.paid = Some(DecFromStr(500, 2))

\* C2: InvoiceBuilder::build fails with a missing-field error that names an
\* unset field among id, receiver and sender whenever one of them was never
\* set, and succeeds whenever all three are set, whatever else is omitted.
C2_RequiredFields ==
    Built("InvoiceBuilder::build") =>
        LET b == Unwrap(out).builder
            r == Unwrap(out).result
        IN  /\ r.ok <=> (b.id # None /\ b.receiver # None /\ b.sender # None)
            /\ ~r.ok => /\ r.field \in {"id", "receiver", "sender"}
                        /\ b[r.field] = None

\* build succeeded on a builder with all three required fields and nothing else
C2_Witness ==
    /\ BuiltOk("InvoiceBuilder::build")
    /\ \A f \in InvoiceOptional : Unwrap(out).builder[f] = None

\* C5: every build reports the earliest-declared unset required field (sku,
\* title, quantity, price for LineItem; id, receiver, sender for Invoice).
C5_FirstDeclaredMissing ==
    /\ BuiltErr("LineItemBuilder::build") =>
          Unwrap(out).result.field = FirstMissing(Unwrap(out).builder, LineItemDeclared)
    /\ BuiltErr("InvoiceBuilder::build") =>
          Unwrap(out).result.field = FirstMissing(Unwrap(out).builder, InvoiceRequired)

\* C7: with the line_items setter never called, the built Invoice's line_items
\* are exactly the arguments of the add_line calls in call order, whatever
\* other setters ran in between; and add_line changes no other builder field.
C7_AddLineAppends ==
    /\ (BuiltOk("InvoiceBuilder::build") /\ ~replaced) =>
          line_items(Unwrap(out).result.value) = added
    /\ phase = "InvoiceBuilder" =>
          \A l \in Lines(variant) :
              \A f \in DOMAIN ib \ {"line_items"} : add_line(ib, l)[f] = ib[f]

\* two different lines were added around other setter calls and the invoice
\* was built
C7_Witness ==
    /\ BuiltOk("InvoiceBuilder::build")
    /\ ~replaced
    /\ Len(added) = 2
    /\ added[1] # added[2]
    /\ Unwrap(out).builder.paid # None
    /\ Unwrap(out).builder.logo # None

\* C8: a LineItem's total is exactly quantity * price for every i32 quantity,
\* zero, negative, i32::MIN and i32::MAX included; 2 x 9.50 is 19.
C8_LineTotalExact ==
    BuiltOk("LineItemBuilder::build") =>
        LET l == Unwrap(out).result.value
            q == Unwrap(Unwrap(out).builder.quantity)
            p == Unwrap(Unwrap(out).builder.price)
        IN  /\ \A m \in Moduli :
                 DecMod(LineItem_total(variant, l), p.scale, m)
                     = ExactProduct(q, p, p.scale, m)
            /\ q = 0 => IsZero(LineItem_total(variant, l))
            /\ (q = 2 /\ p = DecFromStr(950, 2)) =>
                 DecEq(LineItem_total(variant, l), DecFromI32(19))

\* a line of i32::MIN units at a negative price was built: the product, positive
\* and above 2^31, fits no i32
C8_Witness ==
    /\ BuiltOk("LineItemBuilder::build")
    /\ Unwrap(out).result.value.quantity = I32Min
    /\ Unwrap(out).result.value.price.int_val.neg

\* C9: a builder takes every setter call (and add_line) whatever required
\* fields it is missing, and holds the value afterwards; nothing is returned,
\* so no failure either, before the terminal build.
C9_SettersNeverFail ==
    /\ phase # "built" => out = None
    /\ out # None =>
          Unwrap(out).method \in {"LineItemBuilder::build", "InvoiceBuilder::build"}
    /\ phase = "LineItemBuilder" =>
          /\ \A v \in Skus : LineItemBuilder_sku(lb, v).sku = Some(v)
          /\ \A v \in Titles : LineItemBuilder_title(lb, v).title = Some(v)
          /\ \A v \in Quantities : LineItemBuilder_quantity(lb, v).quantity = Some(v)
          /\ \A v \in Prices : LineItemBuilder_price(lb, v).price = Some(v)
    /\ phase = "InvoiceBuilder" =>
          /\ \A v \in Ids : InvoiceBuilder_id(ib, v).id = Some(v)
          /\ \A v \in Datetimes :
                /\ InvoiceBuilder_created_datetime(ib, v).created_datetime = Some(v)
                /\ InvoiceBuilder_net_due_datetime(ib, v).net_due_datetime = Some(v)
          /\ \A v \in Receivers : InvoiceBuilder_receiver(ib, v).receiver = Some(v)
          /\ \A v \in Senders : InvoiceBuilder_sender(ib, v).sender = Some(v)
          /\ \A v \in Logos : InvoiceBuilder_logo(ib, v).logo = Some(Some(v))
          /\ \A v \in Paids : InvoiceBuilder_paid(ib, v).paid = Some(v)
          /\ \A v \in AcctIds : InvoiceBuilder_acct_id(ib, v).acct_id = Some(Some(v))
          /\ \A v \in PurchaseOrders :
                InvoiceBuilder_purchase_order(ib, v).purchase_order = Some(Some(v))
          /\ \A l \in Lines(variant) :
                LET ls == Unwrap(add_line(ib, l).line_items)
                IN  ls[Len(ls)] = l

\* an InvoiceBuilder without its id has taken every other field and two lines,
\* and build then failed
C9_Witness ==
    /\ BuiltErr("InvoiceBuilder::build")
    /\ LET b == Unwrap(out).builder
       IN  /\ b.id = None
           /\ \A f \in DOMAIN b \ {"id"} : b[f] # None
           /\ Len(Unwrap(b.line_items)) = 2

\* C10: an Invoice built with only id, receiver and sender set has no line
\* items, paid zero, no logo, acct_id or purchase_order, both datetimes read
\* from the clock while build ran (no thirty days added), total 0 and 0 due.
C10_Defaults ==
    (/\ BuiltOk("InvoiceBuilder::build")
     /\ \A f \in InvoiceOptional : Unwrap(out).builder[f] = None) =>
        LET inv == Unwrap(out).result.value
            before == Unwrap(out).now1
        IN  /\ line_items(inv) = <<>>
            /\ inv.paid = DecFromI32(0)
            /\ inv.logo = None
            /\ inv.acct_id = None
            /\ inv.purchase_order = None
            /\ inv.created_datetime \in before..clock
            /\ inv.net_due_datetime \in before..clock
            /\ IsZero(Invoice_total(variant, inv))
            /\ IsZero(net_due(inv))

\* such an invoice was built while the clock moved between the two readings
C10_Witness ==
    /\ BuiltOk("InvoiceBuilder::build")
    /\ \A f \in InvoiceOptional : Unwrap(out).builder[f] = None
    /\ clock > Unwrap(out).now1
    /\ Unwrap(out).result.value.net_due_datetime = clock

\* C6: an Error's context list starts with the cause it was made from, every
\* add_context appends one entry at the end and changes neither the kind nor
\* the entries before it, and Display shows the list reversed, the outermost
\* context first and the cause last, joined by " -> ".
C6_ContextChain ==
    err # None =>
        LET e == Unwrap(err)
            h == Unwrap(hist)
        IN  /\ e.kind.tag = h.tag
            /\ e.context = <<h.cause>> \o h.added
            /\ Display(e) = h.expected

\* an error went up through three layers, the last two with different contexts
C6_Witness ==
    /\ err # None
    /\ Len(Unwrap(hist).added) = 3
    /\ Unwrap(hist).added[2] # Unwrap(hist).added[3]
    /\ Display(Unwrap(err)) # "no context"

\* main has ended: by returning, or by clap ending the process
MainEnded == pc \in {"done", "exited"}

StartedOk == started # None /\ Unwrap(started).ok

StartedErr == started # None /\ ~Unwrap(started).ok

\* C3: on every path by which main ends after start_chromedriver returned
\* Ok, the child process has been killed.
C3_ChromedriverKilled == (MainEnded /\ StartedOk) => trace.kills > 0

\* C4: generate_pdf is attempted only after start_chromedriver returned Ok,
\* which it does only after port 4444 was seen in use behind the spawn; when
\* start_chromedriver fails, no invoice is read and none is rendered.
C4_NoRenderBeforeDriver ==
    /\ trace.renders # <<>> => StartedOk /\ trace.seen
    /\ StartedErr =>
          /\ ~trace.read
          /\ trace.renders = <<>>
          /\ pc \in {"main", "done"}
          /\ pc = "done" => ~Unwrap(result).ok

C4_Witness ==
    /\ polls > 0
    /\ port = "chromedriver"
    /\ Len(trace.renders) = 2
    /\ trace.renders[2].failed = "none"

AddressRequired == <<"line1", "city", "province_code", "postal_code">>

PartyRequired == <<"name">>

\* every field of the sequence is set in the builder
AllSet(b, fields) == \A i \in 1..Len(fields) : b[fields[i]] # None

\* C11: AddressBuilder::build and PartyBuilder::build return Ok exactly when
\* line1, city, province_code and postal_code, respectively name, are set; an
\* Err names a required field that is unset; line2, phone, email and address
\* left unset are None in the value built, and set they are what was set.
C11_PartyAddressRequired ==
    /\ Built("AddressBuilder") =>
          LET b == Unwrap(out).builder
              r == Unwrap(out).result
          IN  /\ r.ok <=> AllSet(b, AddressRequired)
              /\ ~r.ok => r.field = FirstMissing(b, AddressRequired)
              /\ r.ok => /\ \A i \in 1..Len(AddressRequired) :
                               r.value[AddressRequired[i]] = Unwrap(b[AddressRequired[i]])
                         /\ b.line2 = None => r.value.line2 = None
                         /\ b.line2 # None => r.value.line2 = Unwrap(b.line2)
    /\ Built("PartyBuilder") =>
          LET b == Unwrap(out).builder
              r == Unwrap(out).result
          IN  /\ r.ok <=> AllSet(b, PartyRequired)
              /\ ~r.ok => r.field = "name"
              /\ r.ok => /\ r.value.name = Unwrap(b.name)
                         /\ \A f \in {"phone", "email", "address"} :
                               /\ b[f] = None => r.value[f] = None
                               /\ b[f] # None => r.value[f] = Unwrap(b[f])

\* an address built without its second line
C11_Witness ==
    /\ BuiltOk("AddressBuilder")
    /\ Unwrap(out).builder.line2 = None
    /\ Unwrap(out).result.value.line2 = None

Ran(op) == codec # None /\ Unwrap(codec).op = op

\* C12: the string serialize_bigdecimal writes for x reads back, through
\* deserialize_bigdecimal, as a value equal to x: the same sign and digits at
\* the same scale, or, for a negative scale written out in zeros, the same
\* integer at scale 0.
C12_DecimalRoundTrip ==
    Ran("bigdecimal") =>
        LET c == Unwrap(codec)
        IN  /\ c.back.ok
            /\ DecEq(c.back.value, c.value)
            /\ \/ c.back.value = c.value
               \/ /\ c.value.scale < 0
                  /\ c.back.value =
                        BigDecimal(BigShift(c.value.int_val, -c.value.scale), 0)

\* -0.0125 written as "-0.0125" and read back
C12_Witness ==
    /\ Ran("bigdecimal")
    /\ Unwrap(codec).value = BigDecimal(BigInt(TRUE, <<5, 2, 1>>), 4)
    /\ Unwrap(codec).json.chars = <<"-", "0", ".", "0", "1", "2", "5">>
    /\ Unwrap(codec).back.ok

\* what an RFC 3339 string says, read off its characters: the local date and
\* time, the digits of the fraction, the offset in minutes east of UTC
ZoneStart(cs) == IF cs[Len(cs)] \in {"Z", "z"} THEN Len(cs) ELSE Len(cs) - 5

FracDigits(cs) == SubSeq(cs, 21, ZoneStart(cs) - 1)

RECURSIVE StripZeros(_)
StripZeros(ds) ==
    IF ds # <<>> /\ ds[Len(ds)] = "0" THEN StripZeros(SubSeq(ds, 1, Len(ds) - 1)) ELSE ds

OffsetMinutes(cs) ==
    LET z == SubSeq(cs, ZoneStart(cs), Len(cs))
    IN  IF Len(z) = 1 THEN 0
        ELSE (IF z[1] = "-" THEN -1 ELSE 1)
             * ((DigitVal(z[2]) * 10 + DigitVal(z[3])) * 60 + DigitVal(z[5]) * 10 + DigitVal(z[6]))

SameLocalAndOffset(a, b) ==
    /\ SubSeq(a, 1, 10) = SubSeq(b, 1, 10)
    /\ SubSeq(a, 12, 19) = SubSeq(b, 12, 19)
    /\ OffsetMinutes(a) = OffsetMinutes(b)

FirstNine(ds) == SubSeq(ds, 1, IF Len(ds) < 9 THEN Len(ds) ELSE 9)

\* C13 as claimed: every valid RFC 3339 string is read, and what is written
\* back denotes the same instant at the same numeric offset.
C13_TimestampRoundTrip ==
    (Ran("datetime") /\ Unwrap(codec).json.chars \in TimestampStrings) =>
        LET c   == Unwrap(codec)
            in  == c.json.chars
        IN  /\ c.parsed.ok
            /\ SameLocalAndOffset(in, Unwrap(c.back).chars)
            /\ StripZeros(FracDigits(in)) = StripZeros(FracDigits(Unwrap(c.back).chars))

\* C13 amended: every valid RFC 3339 string is read, and what is written back
\* denotes the same instant cut to whole nanoseconds (the digits of the
\* fraction after the ninth are dropped) at the same numeric offset, the
\* offset written as sign, hours and minutes, +00:00 for UTC.
C13_TimestampRoundTripNanos ==
    (Ran("datetime") /\ Unwrap(codec).json.chars \in TimestampStrings) =>
        LET c   == Unwrap(codec)
            in  == c.json.chars
        IN  /\ c.parsed.ok
            /\ LET back == Unwrap(c.back).chars
               IN  /\ SameLocalAndOffset(in, back)
                   /\ StripZeros(FirstNine(FracDigits(in))) = StripZeros(FracDigits(back))
                   /\ back[11] = "T"
                   /\ back[Len(back)] \notin {"Z", "z"}
                   /\ OffsetMinutes(in) = 0 =>
                         SubSeq(back, Len(back) - 5, Len(back)) = <<"+", "0", "0", ":", "0", "0">>

\* a leap day read with a fraction and a negative offset, written back
C13_Witness ==
    /\ Ran("datetime")
    /\ Unwrap(codec).parsed.ok
    /\ SubSeq(Unwrap(codec).json.chars, 1, 10) = <<"2", "0", "2", "4", "-", "0", "2", "-", "2", "9">>
    /\ FracDigits(Unwrap(codec).json.chars) = <<"5">>
    /\ OffsetMinutes(Unwrap(codec).json.chars) = -480
    /\ FracDigits(Unwrap(Unwrap(codec).back).chars) = <<"5", "0", "0">>

\* the record holds, in a decimal or timestamp field, something the input
\* sets list as malformed
Malformed(raw) ==
    \/ raw.paid # None /\ Unwrap(raw.paid) \in BadDecimalFields
    \/ raw.created_datetime # None /\ Unwrap(raw.created_datetime) \in BadTimestampFields
    \/ raw.net_due_datetime # None /\ Unwrap(raw.net_due_datetime) \in BadTimestampFields
    \/ /\ raw.line_items # None
       /\ \E i \in 1..Len(Unwrap(raw.line_items).items) :
             LET l == Unwrap(raw.line_items).items[i]
             IN  l.price # None /\ Unwrap(l.price) \in BadDecimalFields

\* C14: a record with a decimal field that is no numeric string, or a
\* timestamp field that is no RFC 3339 string, decodes to an error, and so
\* does the input that holds it; no Invoice comes out of it.
C14_MalformedRejected ==
    Ran("decode") =>
        LET c == Unwrap(codec)
        IN  /\ \A i \in 1..Len(c.raws) : Malformed(c.raws[i]) => ~c.records[i].ok
            /\ (\E i \in 1..Len(c.raws) : Malformed(c.raws[i])) =>
                  /\ ~c.result.ok
                  /\ c.result.error.context[Len(c.result.error.context)] = "parsing invoice JSON"
            /\ c.result.ok =>
                  /\ Len(c.result.value) = Len(c.raws)
                  /\ \A i \in 1..Len(c.raws) :
                        BigDecimal_to_string(c.result.value[i].paid)
                            = {Unwrap(c.raws[i].paid).chars}

\* a good record followed by one whose paid is "reee"
C14_Witness ==
    /\ Ran("decode")
    /\ Len(Unwrap(codec).raws) = 2
    /\ ~Malformed(Unwrap(codec).raws[1])
    /\ Unwrap(Unwrap(codec).raws[2].paid) = JString(<<"r", "e", "e", "e">>)
    /\ Unwrap(codec).records[1].ok
    /\ ~Unwrap(codec).result.ok

\* ---- C15 ----
\* the invoices write_invoice_pdf has returned Ok for
Processed == 1 .. (idx - 1)

WrittenFor(i) == {k \in 1 .. Len(trace.written) : trace.written[k].invoice = i}

\* C15, as stated: every processed invoice has its PDF at exactly one
\* destination, the file out/<invoice id>.pdf when a directory was supplied
\* and the standard output when none was
C15_OneDestination ==
    \A i \in Processed :
       /\ Cardinality(WrittenFor(i)) = 1
       /\ \A k \in WrittenFor(i) :
             trace.written[k].to = IF Unwrap(cli).out # None THEN PdfPath(i) ELSE "stdout"

\* C15, amended: every processed invoice has its PDF at exactly one
\* destination, the file out/<invoice id>.pdf when a directory was supplied
\* and the write to it succeeded, the standard output when no directory was
\* supplied or the write to the file failed; no invoice ever has two
C15_OneDestinationOrFallback ==
    /\ \A i \in Processed :
          /\ Cardinality(WrittenFor(i)) = 1
          /\ \A k \in WrittenFor(i) :
                trace.written[k].to = IF Unwrap(cli).out # None /\ i \notin trace.fallbacks
                                      THEN PdfPath(i) ELSE "stdout"
    /\ \A i \in 1 .. Len(invoices) : Cardinality(WrittenFor(i)) <= 1

\* two invoices processed with a directory supplied, one to its file and one
\* to the standard output after its file could not be written
C15_Witness ==
    /\ cli # None
    /\ Unwrap(cli).out # None
    /\ Processed = {1, 2}
    /\ trace.fallbacks = {2}
    /\ trace.written = <<[invoice |-> 1, to |-> PdfPath(1)], [invoice |-> 2, to |-> "stdout"]>>

\* ---- C16 ----
\* the step by which start_chromedriver returns
StartReturns == pc \in {"start_chromedriver", "spawn", "poll", "after_polls"} /\ pc' = "main"

\* C16: start_chromedriver returns Ok(child) only if port 4444 was free before
\* the spawn and seen in use after it; with the port in use at entry it returns
\* an error and spawns nothing; and when the driver has exited or has not bound
\* the port by the time it returns, it returns an error.
C16_StartContract ==
    [][StartReturns =>
          /\ Unwrap(started').ok => trace'.entry = "free" /\ trace'.seen
          /\ trace'.entry # "free" => ~Unwrap(started').ok /\ chrome' = "none"
          /\ (chrome = "exited" \/ port # "chromedriver") => ~Unwrap(started').ok]_vars

\* ---- C17 ----
\* the context each step of generate_pdf is documented by, and the kind of
\* Error its cause converts to
StepContext ==
    [connect |-> "connecting to client", template_env |-> "setting up templating environment",
     render |-> "rendering html template", goto |-> "navigating to address",
     print_config |-> "configuring printer", print |-> "printing pdf"]

StepCause ==
    [connect |-> "FantocciniNewSession", template_env |-> "Minijinja", render |-> "Minijinja",
     goto |-> "FantocciniCmdError", print_config |-> "FantocciniPrintError",
     print |-> "FantocciniCmdError"]

\* C17: generate_pdf never swallows a failure. A step that fails is the last
\* step run, and the call has returned Err with the cause of that step first
\* in the chain and the context of that step next; the steps run in their order;
\* Ok is returned only after every step ran and none failed.
C17_NoSwallowedFailure ==
    /\ gp.ran = SubSeq(StepOrder, 1, Len(gp.ran))
    /\ \A k \in 1 .. Len(gp.ran) :
          gp.ran[k] \in gp.fails =>
             /\ k = Len(gp.ran)
             /\ gp.pc = "returned"
             /\ ~Unwrap(gp.result).ok
             /\ Unwrap(gp.result).error.kind.tag = StepCause[gp.ran[k]]
             /\ Len(Unwrap(gp.result).error.context) >= 2
             /\ Unwrap(gp.result).error.context[2] = StepContext[gp.ran[k]]
    /\ (gp.result # None /\ Unwrap(gp.result).ok) =>
          /\ gp.ran = StepOrder
          /\ \A k \in 1 .. Len(gp.ran) : gp.ran[k] \notin gp.fails

\* rendering failed in a call whose print would have failed too: the call
\* returned the rendering error and went no further
C17_Witness ==
    /\ gp.pc = "returned"
    /\ gp.fails = {"render", "print"}
    /\ gp.ran = <<"connect", "template_env", "render">>
    /\ ~Unwrap(gp.result).ok
    /\ Unwrap(gp.result).error.context =
          <<"Error { kind: InvalidOperation }", "rendering html template", "generating pdf">>

\* ---- C18 ----
\* the sum of the stored line totals times 10^s, modulo m
RECURSIVE StoredSum(_, _, _)
StoredSum(ls, s, m) ==
    IF ls = <<>> THEN 0
    ELSE (StoredSum(Tail(ls), s, m) + DecMod(Head(ls).total, s, m)) % m

\* C18: in the revision that stores them, the total of a built Invoice is the
\* sum of its line items' stored totals, its due is that total minus paid, and
\* every net_due() call returns the stored due; and the built Invoice, total
\* and due included, is never changed by anything called on it.
C18_StoredOnce ==
    /\ [](variant = "stored" =>
             LET inv == Unwrap(out).result.value
                 s   == ScaleSum(inv.line_items) + inv.paid.scale
             IN  /\ \A m \in Moduli :
                       /\ DecMod(inv.total, s, m) = StoredSum(inv.line_items, s, m)
                       /\ DecMod(inv.due, s, m) =
                             (DecMod(inv.total, s, m) + m - DecMod(inv.paid, s, m)) % m
                 /\ DecEq(net_due(inv), inv.due)
                 /\ (got # None /\ Unwrap(got).method = "net_due") =>
                       DecEq(Unwrap(got).value, inv.due)
                 /\ (got # None /\ Unwrap(got).method = "total") =>
                       Unwrap(got).value = inv.total)
    /\ [][out' = out]_vars

\* a stored invoice of two lines with a payment, after a net_due() call
C18_Witness ==
    /\ variant = "stored"
    /\ got # None
    /\ Unwrap(got).method = "net_due"
    /\ Len(Unwrap(out).result.value.line_items) = 2
    /\ Unwrap(out).result.value.line_items[1].quantity = 3
    /\ Unwrap(out).result.value.line_items[2].quantity = -2
    /\ Unwrap(out).result.value.paid = DecFromStr(500, 2)

\* ---- C19 ----
\* the line item the same LineItemBuilder calls build in revision v
LineIn(v, l) ==
    LineItemBuilderBuild(v, [sku |-> Some(l.sku), title |-> Some(l.title),
                             quantity |-> Some(l.quantity), price |-> Some(l.price)]).value

\* the InvoiceBuilder the same calls leave in revision v
BuilderIn(v, b) ==
    IF b.line_items = None THEN b
    ELSE [b EXCEPT !.line_items =
             Some([k \in 1 .. Len(Unwrap(b.line_items)) |-> LineIn(v, Unwrap(b.line_items)[k])])]

\* the amount due of an Invoice: the stored field, or net_due()
Invoice_due(v, inv) == IF v = "stored" THEN inv.due ELSE net_due(inv)

\* C19: for the same builder calls the two revisions build alike: both return
\* Ok or both return the same Err, and on Ok the line totals, the invoice total
\* and the amount due are equal.
C19_VariantsEquivalent ==
    /\ Built("LineItemBuilder::build") =>
          LET st == LineItemBuilderBuild("stored", Unwrap(out).builder)
              ac == LineItemBuilderBuild("accessor", Unwrap(out).builder)
          IN  /\ st.ok = ac.ok
              /\ ~st.ok => st = ac
              /\ st.ok => DecEq(LineItem_total("stored", st.value),
                                LineItem_total("accessor", ac.value))
    /\ Built("InvoiceBuilder::build") =>
          LET o  == Unwrap(out)
              st == InvoiceBuilderBuild("stored", BuilderIn("stored", o.builder), o.now1, o.now2)
              ac == InvoiceBuilderBuild("accessor", BuilderIn("accessor", o.builder),
                                        o.now1, o.now2)
          IN  /\ st.ok = ac.ok
              /\ ~st.ok => st = ac
              /\ st.ok =>
                    /\ DecEq(Invoice_total("stored", st.value),
                             Invoice_total("accessor", ac.value))
                    /\ DecEq(Invoice_due("stored", st.value), Invoice_due("accessor", ac.value))
                    /\ \A k \in 1 .. Len(st.value.line_items) :
                          DecEq(LineItem_total("stored", st.value.line_items[k]),
                                LineItem_total("accessor", ac.value.line_items[k]))

\* ---- C20 ----
\* the orders a sequence of n lines can be added in
Orders(n) == {f \in [1 .. n -> 1 .. n] : \A i, j \in 1 .. n : f[i] = f[j] => i = j}

\* C20: the invoice built from the same lines added in any other order, with
\* the same paid, has an equal total and an equal net_due(), and its
\* line_items() are the lines in the order they were added for it, as those of
\* the first invoice are in theirs.
C20_OrderIndependent ==
    LET inv  == Unwrap(out).result.value
        ls   == line_items(inv)
        base == [Unwrap(out).builder EXCEPT !.line_items = None]
    IN  /\ ls = added
        /\ \A f \in Orders(Len(ls)) :
              LET ps == [k \in 1 .. Len(ls) |-> ls[f[k]]]
                  r  == InvoiceBuilderBuild(variant, AddLines(base, ps), 0, 0)
              IN  /\ r.ok
                  /\ DecEq(Invoice_total(variant, r.value), Invoice_total(variant, inv))
                  /\ DecEq(net_due(r.value), net_due(inv))
                  /\ line_items(r.value) = ps

\* an invoice of two different lines, prices of different scales, paid 5.00,
\* whose total was read
C20_Witness ==
    /\ variant = "accessor"
    /\ got # None
    /\ Unwrap(got).method = "total"
    /\ Len(added) = 2
    /\ added[1].sku = "C"
    /\ added[2].sku = "B"
    /\ Unwrap(out).result.value.paid = DecFromStr(500, 2)

\* ---- C21 ----
\* C21: the context handed to the template has, under invoice, the keys total,
\* due and paid with the invoice's total, amount due and paid, and under lines
\* one entry per line item, in insertion order, with the keys sku, title,
\* quantity, price and total holding the line's values.
C21_TemplateFields ==
    (got # None /\ Unwrap(got).method = "render_template") =>
        LET ctx == Unwrap(got).value
            inv == Unwrap(out).result.value
        IN  /\ BaseInvoiceAmounts \subseteq DOMAIN ctx.invoice
            /\ DecEq(ctx.invoice.total, Invoice_total(variant, inv))
            /\ DecEq(ctx.invoice.due, net_due(inv))
            /\ ctx.invoice.paid = inv.paid
            /\ Len(ctx.lines) = Len(added)
            /\ \A k \in 1 .. Len(ctx.lines) :
                  /\ BaseLineKeys \subseteq DOMAIN ctx.lines[k]
                  /\ ctx.lines[k].sku = added[k].sku
                  /\ ctx.lines[k].title = added[k].title
                  /\ ctx.lines[k].quantity = added[k].quantity
                  /\ ctx.lines[k].price = added[k].price
                  /\ DecEq(ctx.lines[k].total, LineItem_total(variant, added[k]))

\* ---- C22 ----
\* a decimal text with exactly two digits after the point: an optional minus,
\* digits, a point, two digits
TwoFractionalDigits(cs) ==
    LET body == IF cs # <<>> /\ cs[1] = "-" THEN Tail(cs) ELSE cs
        n    == Len(body)
    IN  /\ n >= 4
        /\ body[n - 2] = "."
        /\ \A i \in 1 .. n : i # n - 2 => IsDigit(body[i])

\* less than one hundredth apart
WithinOneCent(a, b) ==
    LET diff == DecSub(a, b)
    IN  IF diff.scale <= 2 THEN IsZero(diff) ELSE Len(diff.int_val.mag) <= diff.scale - 2

\* C22: for a text that is a decimal number pretty_price returns "$" and then
\* the amount with exactly two fractional digits (the amount itself when it
\* has no more than two, within a hundredth of it otherwise), negative
\* amounts included; for a text that is none it returns "NaN"; format_ymd
\* returns "N/A" for a text that is no RFC 3339 timestamp, and the date of the
\* timestamp otherwise.
C22_Filters ==
    /\ Ran("pretty_price") =>
          LET raw == Unwrap(codec).raw
              o   == Unwrap(codec).out
          IN  /\ raw \in MalformedDecimals => o = <<"N", "a", "N">>
              /\ raw \in PriceTexts =>
                    /\ o[1] = "$"
                    /\ TwoFractionalDigits(Tail(o))
                    /\ WithinOneCent(BigDecimal_from_str(Tail(o)).value,
                                     BigDecimal_from_str(raw).value)
                    /\ \/ (raw[1] = "-") = (o[2] = "-")
                       \/ IsZero(BigDecimal_from_str(Tail(o)).value)
    /\ Ran("format_ymd") =>
          LET raw == Unwrap(codec).raw
              o   == Unwrap(codec).out
          IN  /\ raw \in MalformedTimestamps => o = <<"N", "/", "A">>
              /\ raw \in TimestampStrings => o = SubSeq(raw, 1, 10)

\* 19.995, three fractional digits and a tie, printed as $20.00
C22_Witness ==
    /\ Ran("pretty_price")
    /\ Unwrap(codec).raw = <<"1", "9", ".", "9", "9", "5">>
    /\ Unwrap(codec).out = <<"$", "2", "0", ".", "0", "0">>

\* ---- C23 ----
\* C23: whenever start_chromedriver returns Err after it has spawned the
\* child, the child is no longer running: it has exited or has been killed,
\* also when try_wait or kill failed.
C23_NoOrphan ==
    [][(StartReturns /\ chrome' # "none" /\ ~Unwrap(started').ok)
          => chrome' \in {"exited", "killed"}]_vars

\* ---- C24 ----
\* the loop of main has ended at an invoice whose write_invoice_pdf returned Err
LoopStopped == pc = "done" /\ idx \in 1 .. Len(invoices)

\* renders and writes follow the input: never one for an earlier invoice after
\* one for a later invoice, none for an invoice past the current one
InInputOrder ==
    /\ \A k \in 1 .. (Len(trace.renders) - 1) :
          trace.renders[k].invoice <= trace.renders[k + 1].invoice
    /\ \A k \in 1 .. (Len(trace.written) - 1) :
          trace.written[k].invoice < trace.written[k + 1].invoice
    /\ \A k \in 1 .. Len(trace.renders) : trace.renders[k].invoice <= idx
    /\ \A i \in 1 .. Len(invoices) : i > idx => WrittenFor(i) = {}

\* the contexts write_invoice_pdf leaves outermost on the error of invoice i
WriteContexts(i) ==
    {"invoice id: " \o invoices[i], "printing to stdout", "writing invoice pdf to stdout"}

\* main returns the error write_invoice_pdf returned for invoice i, as it is
ReturnsErrorOf(i) ==
    /\ result # None
    /\ ~Unwrap(result).ok
    /\ LET context == Unwrap(result).error.context
       IN  /\ context[Len(context)] \in WriteContexts(i)
           /\ \A k \in 1 .. Len(context) :
                 context[k] \notin {"killing chromedriver process from cli",
                                    "deserializing invoices from cli",
                                    "starting chromedriver in cli"}

\* the flush of the standard output is what failed for the invoice the loop
\* stopped at
FlushFailed ==
    /\ result # None
    /\ ~Unwrap(result).ok
    /\ \E k \in 1 .. Len(Unwrap(result).error.context) :
          Unwrap(result).error.context[k] = "flushing stdout"

RendersFor(i) == {k \in 1 .. Len(trace.renders) : trace.renders[k].invoice = i}

\* C25: generate_pdf is invoked exactly once for each invoice the program has
\* processed, and never more than once for any invoice, whichever destination
\* is used: the output directory, the standard output, or the standard output
\* after a failed file write.
C25_RenderedOnce ==
    /\ \A i \in Processed : Cardinality(RendersFor(i)) = 1
    /\ \A i \in 1 .. Len(invoices) : Cardinality(RendersFor(i)) <= 1

\* ---- C26 ----
\* the step in which std::fs::write fails: write_invoice_pdf leaves the file
\* write and no write is recorded
FileWriteFails == pc = "fs_write" /\ pc' # pc /\ trace'.written = trace.written

\* the step in which the standard output takes the PDF of an invoice whose
\* file could not be written, flush included
FallbackSucceeds ==
    /\ pc = "stdout_write"
    /\ idx \in trace.fallbacks
    /\ trace'.written = Append(trace.written, [invoice |-> idx, to |-> "stdout"])
    /\ result' = result

\* C26: with an output directory supplied, a failed write of <invoice id>.pdf
\* is not returned as an error: write_invoice_pdf goes on to the standard
\* output with the same invoice, and when that succeeds it returns Ok, the
\* invoice counts as processed with its PDF on the standard output, and the
\* loop goes on with the next invoice; an error returned for such an invoice
\* is the error of the standard output path.
C26_Fallback ==
    /\ [][/\ FileWriteFails =>
               /\ Unwrap(cli).out # None
               /\ pc' = "to_stdout"
               /\ idx' = idx
               /\ idx \in trace'.fallbacks
               /\ result' = result
          /\ FallbackSucceeds =>
               /\ idx' = idx + 1
               /\ pc' = IF idx = Len(invoices) THEN "kill" ELSE "write_invoice_pdf"]_vars
    /\ [](\A i \in trace.fallbacks :
            /\ i \in Processed =>
                  \E k \in WrittenFor(i) : trace.written[k].to = "stdout"
            /\ (LoopStopped /\ idx = i) =>
                  Unwrap(result).error.context[Len(Unwrap(result).error.context)]
                     \in {"printing to stdout", "writing invoice pdf to stdout"})

\* the file of the first of two invoices could not be written, its PDF went to
\* the standard output, and the loop is at the second invoice
C26_Witness ==
    /\ cli # None
    /\ Unwrap(cli).out # None
    /\ Len(invoices) = 2
    /\ trace.fallbacks = {1}
    /\ trace.written = <<[invoice |-> 1, to |-> "stdout"]>>
    /\ idx = 2
    /\ pc = "write_invoice_pdf"
    /\ result = None

\* ---- C27 ----
\* C27: when generate_pdf returns, on the success path and on every error
\* path after the connection, the session it opened is closed; whatever the
\* number of calls, no session opened by a call that has returned remains open.
C27_SessionsClosed ==
    \A n \in gp.open : n = gp.calls /\ gp.pc # "returned"

\* ---- C28 ----
\* the record has every field that is not an Option, and nothing malformed
Complete(raw) ==
    /\ \A f \in {"id", "receiver", "sender"} \cup DefaultedFields : raw[f] # None
    /\ ~Malformed(raw)

\* C28: decoding takes no default of the builder: a record without paid,
\* line_items, created_datetime or net_due_datetime is rejected with a decode
\* error that names a missing field, a record that only leaves out logo,
\* acct_id or purchase_order is accepted with the field absent, and an input
\* with any rejected record gives Err from get_invoices and no invoices.
C28_NoDefaultsOnDecode ==
    Ran("decode") =>
        LET c == Unwrap(codec)
        IN  /\ \A i \in 1..Len(c.raws) :
                  /\ (\E f \in DefaultedFields : c.raws[i][f] = None) =>
                        /\ ~c.records[i].ok
                        /\ \E f \in DefaultedFields :
                              c.raws[i][f] = None /\ c.records[i] = MissingField(f)
                  /\ Complete(c.raws[i]) =>
                        /\ c.records[i].ok
                        /\ \A f \in OptionFields :
                              (c.raws[i][f] = None) = (c.records[i].value[f] = None)
            /\ (\E i \in 1..Len(c.raws) : ~c.records[i].ok) => ~c.result.ok
            /\ c.result.ok => Len(c.result.value) = Len(c.raws)

\* a record without purchase_order, accepted, followed by one without
\* line_items, rejected: the input gives no invoices
C28_Witness ==
    /\ Ran("decode")
    /\ Len(Unwrap(codec).raws) = 2
    /\ Unwrap(codec).raws[1] = [RawInvoiceFull EXCEPT !.purchase_order = None]
    /\ Unwrap(codec).records[1].ok
    /\ Unwrap(codec).records[1].value.purchase_order = None
    /\ Unwrap(codec).raws[2] = [RawInvoiceFull EXCEPT !.line_items = None]
    /\ Unwrap(codec).records[2] = MissingField("line_items")
    /\ ~Unwrap(codec).result.ok

\* ---- C29 ----
\* format!("{:?}", value) of the cause a kind holds, the String itself for Other
RenderCause(kind) ==
    IF kind.tag = "Io" THEN DebugIo(kind.value)
    ELSE IF kind.tag = "Other" THEN kind.value
    ELSE DebugFantoccini(kind.value)

\* C29: an Error made by a From conversion and any number of add_context
\* calls has a context list that is not empty and starts with the rendering
\* of its cause; Display therefore never takes the "no context" branch, and
\* the chain it prints ends with the cause.
C29_NeverNoContext ==
    err # None =>
        LET e == Unwrap(err)
        IN  /\ e.context # <<>>
            /\ e.context[1] = RenderCause(e.kind)
            /\ Display(e) # "no context"
            /\ Display(e) = Join(Reverse(Tail(e.context)) \o <<RenderCause(e.kind)>>, " -> ")

\* an Error made from the empty String, with two contexts added
C29_Witness ==
    /\ err # None
    /\ Unwrap(err).kind.tag = "Other"
    /\ Unwrap(err).kind.value = ""
    /\ Len(Unwrap(err).context) = 3
    /\ Display(Unwrap(err)) = Unwrap(err).context[3] \o " -> " \o Unwrap(err).context[2] \o " -> "

====
